---- MODULE Spec2Model ----
(***************************************************************************)
(* AI Gateway (GenAI-Scaffold): plugin registration (ModelFactory,         *)
(* SchemaRegistry, loadPlugins) and the schema-driven invoke pipeline      *)
(* (apiKeyAuth, dynamic multer gate, dynamic validation, model controller, *)
(* error boundary of server.ts).                                          *)
(*                                                                         *)
(* Strings whose text matters (property names, paths, messages, model      *)
(* IDs) are sequences of one-character strings, so that toLowerCase,       *)
(* includes, substring and template literals are computed, not assumed.    *)
(***************************************************************************)
EXTENDS Integers, Sequences, FiniteSets, TLC

VARIABLES
  strategyRegistry,  \* ModelFactory.strategyRegistry: modelId -> creator
  schemaMap,         \* SchemaRegistry.schemaMap: modelId -> schema
  plugins,           \* the plugin directories found by readdir and what each holds
  pluginPc,          \* where each loadSinglePlugin call stands
  loaderPc,          \* where loadPlugins stands
  failures,          \* what loadPlugins has logged with console.error, in order
  lastCall,          \* outcome of the last register/unregister/clear/create call
  directCalls,       \* the register/unregister/clear calls made outside the loader, in order
  instances,         \* the strategy instances created so far, in order of creation
  requests,          \* the HTTP requests in flight or answered
  nodeEnv,           \* process.env.NODE_ENV
  serverPc,          \* where Server.start stands: starting, listening or exited
  probe              \* one (schema, body) pair given to the validator and to the file check

vars == <<strategyRegistry, schemaMap, plugins, pluginPc, loaderPc, failures, lastCall,
          directCalls, instances, requests, nodeEnv, serverPc, probe>>

registryVars == <<strategyRegistry, schemaMap, plugins, pluginPc, loaderPc, failures,
                  lastCall, directCalls, instances>>

\* fileKeywords of checkSchemaForFileRequirements
s_file == <<"f", "i", "l", "e">>
s_files == <<"f", "i", "l", "e", "s">>
s_upload == <<"u", "p", "l", "o", "a", "d">>
s_image == <<"i", "m", "a", "g", "e">>
s_document == <<"d", "o", "c", "u", "m", "e", "n", "t">>

\* property names used by the plugin schemas and by the example schemas
s_text == <<"t", "e", "x", "t">>
s_prompt == <<"p", "r", "o", "m", "p", "t">>
s_imageFile == <<"i", "m", "a", "g", "e", "F", "i", "l", "e">>
s_profileData == <<"p", "r", "o", "f", "i", "l", "e", "D", "a", "t", "a">>
s_Document == <<"D", "o", "c", "u", "m", "e", "n", "t">>
s_a == <<"a">>
s_b == <<"b">>
s_language == <<"l", "a", "n", "g", "u", "a", "g", "e">>
s_maxResults == <<"m", "a", "x", "R", "e", "s", "u", "l", "t", "s">>
s_meta == <<"m", "e", "t", "a">>

\* string values of request bodies
s_hi == <<"h", "i">>
s_en == <<"e", "n">>
s_fr == <<"f", "r">>

\* JSON type names, as Ajv prints them in params.type
s_string == <<"s", "t", "r", "i", "n", "g">>
s_number == <<"n", "u", "m", "b", "e", "r">>
s_object == <<"o", "b", "j", "e", "c", "t">>
s_array == <<"a", "r", "r", "a", "y">>

\* pieces of Ajv's schemaPath and instancePath
s_hash == <<"#">>
s_slash == <<"/">>
s_required == <<"r", "e", "q", "u", "i", "r", "e", "d">>
s_type == <<"t", "y", "p", "e">>
s_enum == <<"e", "n", "u", "m">>
s_minimum == <<"m", "i", "n", "i", "m", "u", "m">>
s_maximum == <<"m", "a", "x", "i", "m", "u", "m">>
s_minLength == <<"m", "i", "n", "L", "e", "n", "g", "t", "h">>
s_maxLength == <<"m", "a", "x", "L", "e", "n", "g", "t", "h">>
s_additionalProperties == <<"a", "d", "d", "i", "t", "i", "o", "n", "a", "l", "P", "r", "o", "p", "e", "r", "t", "i", "e", "s">>
s_properties == <<"p", "r", "o", "p", "e", "r", "t", "i", "e", "s">>
s_items == <<"i", "t", "e", "m", "s">>
s_root == <<"r", "o", "o", "t">>

\* message texts of formatErrorMessage
m_Field == <<"F", "i", "e", "l", "d", " ", "'">>
m_isRequired == <<"'", " ", "i", "s", " ", "r", "e", "q", "u", "i", "r", "e", "d">>
m_mustBeType == <<"'", " ", "m", "u", "s", "t", " ", "b", "e", " ", "o", "f", " ", "t", "y", "p", "e", " ">>
m_atLeast == <<"'", " ", "m", "u", "s", "t", " ", "b", "e", " ", "a", "t", " ", "l", "e", "a", "s", "t", " ">>
m_atMost == <<"'", " ", "m", "u", "s", "t", " ", "b", "e", " ", "a", "t", " ", "m", "o", "s", "t", " ">>
m_charsLong == <<" ", "c", "h", "a", "r", "a", "c", "t", "e", "r", "s", " ", "l", "o", "n", "g">>
m_oneOf == <<"'", " ", "m", "u", "s", "t", " ", "b", "e", " ", "o", "n", "e", " ", "o", "f", ":", " ">>
m_additional == <<"'", " ", "c", "o", "n", "t", "a", "i", "n", "s", " ", "a", "d", "d", "i", "t", "i", "o", "n", "a", "l", " ", "p", "r", "o", "p", "e", "r", "t", "i", "e", "s", " ", "n", "o", "t", " ", "a", "l", "l", "o", "w", "e", "d", " ", "i", "n", " ", "s", "c", "h", "e", "m", "a">>
m_commaSp == <<",", " ">>
\* model IDs: the scenario's echo and ghost, and the OCR plugin's modelId
id_echo == <<"e", "c", "h", "o">>
id_ocr == <<"g", "o", "o", "g", "l", "e", "-", "v", "i", "s", "i", "o", "n", "-", "o", "c", "r">>
id_ghost == <<"g", "h", "o", "s", "t">>

\* message texts of the pipeline, and MIME types
m_ModelQ == <<"M", "o", "d", "e", "l", " ", "'">>
m_notAvailable == <<"'", " ", "i", "s", " ", "n", "o", "t", " ", "a", "v", "a", "i", "l", "a", "b", "l", "e">>
m_noSchema == <<"N", "o", " ", "v", "a", "l", "i", "d", "a", "t", "i", "o", "n", " ", "s", "c", "h", "e", "m", "a", " ", "f", "o", "u", "n", "d", " ", "f", "o", "r", " ", "m", "o", "d", "e", "l", ":", " ">>
m_keyRequired == <<"A", "P", "I", " ", "k", "e", "y", " ", "i", "s", " ", "r", "e", "q", "u", "i", "r", "e", "d", ".", " ", "P", "l", "e", "a", "s", "e", " ", "p", "r", "o", "v", "i", "d", "e", " ", "X", "-", "A", "P", "I", "-", "K", "e", "y", " ", "h", "e", "a", "d", "e", "r", ".">>
m_keyInvalid == <<"I", "n", "v", "a", "l", "i", "d", " ", "A", "P", "I", " ", "k", "e", "y", " ", "p", "r", "o", "v", "i", "d", "e", "d", ".">>
m_validationFailed == <<"R", "e", "q", "u", "e", "s", "t", " ", "b", "o", "d", "y", " ", "v", "a", "l", "i", "d", "a", "t", "i", "o", "n", " ", "f", "a", "i", "l", "e", "d">>
m_internalServerError == <<"I", "n", "t", "e", "r", "n", "a", "l", " ", "s", "e", "r", "v", "e", "r", " ", "e", "r", "r", "o", "r">>
m_somethingWentWrong == <<"S", "o", "m", "e", "t", "h", "i", "n", "g", " ", "w", "e", "n", "t", " ", "w", "r", "o", "n", "g">>
m_InternalServerError == <<"I", "n", "t", "e", "r", "n", "a", "l", " ", "S", "e", "r", "v", "e", "r", " ", "E", "r", "r", "o", "r">>
m_fileType == <<"F", "i", "l", "e", " ", "t", "y", "p", "e", " ">>
m_isNotAllowed == <<" ", "i", "s", " ", "n", "o", "t", " ", "a", "l", "l", "o", "w", "e", "d">>
m_fileTooLarge == <<"F", "i", "l", "e", " ", "t", "o", "o", " ", "l", "a", "r", "g", "e">>
m_tooManyFiles == <<"T", "o", "o", " ", "m", "a", "n", "y", " ", "f", "i", "l", "e", "s">>
m_rateLimit == <<"S", "i", "m", "u", "l", "a", "t", "e", "d", " ", "A", "P", "I", " ", "e", "r", "r", "o", "r", ":", " ", "R", "a", "t", "e", " ", "l", "i", "m", "i", "t", " ", "e", "x", "c", "e", "e", "d", "e", "d">>
mime_jpeg == <<"i", "m", "a", "g", "e", "/", "j", "p", "e", "g">>
mime_png == <<"i", "m", "a", "g", "e", "/", "p", "n", "g">>
mime_gif == <<"i", "m", "a", "g", "e", "/", "g", "i", "f">>
mime_webp == <<"i", "m", "a", "g", "e", "/", "w", "e", "b", "p">>
mime_text == <<"t", "e", "x", "t", "/", "p", "l", "a", "i", "n">>
mime_pdf == <<"a", "p", "p", "l", "i", "c", "a", "t", "i", "o", "n", "/", "p", "d", "f">>
mime_json == <<"a", "p", "p", "l", "i", "c", "a", "t", "i", "o", "n", "/", "j", "s", "o", "n">>
mime_exe == <<"a", "p", "p", "l", "i", "c", "a", "t", "i", "o", "n", "/", "x", "-", "m", "s", "d", "o", "w", "n", "l", "o", "a", "d">>

(***************************************************************************)
(* String primitives of JavaScript used by the code                        *)
(***************************************************************************)
\* String.prototype.toLowerCase on one character
lowerChar(c) ==
  CASE c = "A" -> "a" [] c = "B" -> "b" [] c = "C" -> "c" [] c = "D" -> "d"
    [] c = "E" -> "e" [] c = "F" -> "f" [] c = "G" -> "g" [] c = "H" -> "h"
    [] c = "I" -> "i" [] c = "J" -> "j" [] c = "K" -> "k" [] c = "L" -> "l"
    [] c = "M" -> "m" [] c = "N" -> "n" [] c = "O" -> "o" [] c = "P" -> "p"
    [] c = "Q" -> "q" [] c = "R" -> "r" [] c = "S" -> "s" [] c = "T" -> "t"
    [] c = "U" -> "u" [] c = "V" -> "v" [] c = "W" -> "w" [] c = "X" -> "x"
    [] c = "Y" -> "y" [] c = "Z" -> "z" [] OTHER -> c

toLowerCase(s) == [i \in 1..Len(s) |-> lowerChar(s[i])]

\* String.prototype.includes
includes(s, sub) ==
  \E i \in 0..(Len(s) - Len(sub)) : SubSeq(s, i + 1, i + Len(sub)) = sub

\* String.prototype.substring(1)
substring1(s) == IF Len(s) = 0 THEN s ELSE Tail(s)

RECURSIVE ConcatAll(_)
ConcatAll(ss) == IF Len(ss) = 0 THEN <<>> ELSE Head(ss) \o ConcatAll(Tail(ss))

\* Array.prototype.join
RECURSIVE join(_, _)
join(ss, sep) ==
  IF Len(ss) = 0 THEN <<>>
  ELSE IF Len(ss) = 1 THEN ss[1]
  ELSE ss[1] \o sep \o join(Tail(ss), sep)

digitChar(d) == <<"0", "1", "2", "3", "4", "5", "6", "7", "8", "9">>[d + 1]

\* String(n) for an integer n, as a template literal prints it
RECURSIVE natToString(_)
natToString(n) ==
  IF n < 10 THEN <<digitChar(n)>> ELSE natToString(n \div 10) \o <<digitChar(n % 10)>>

numberToString(n) == IF n < 0 THEN <<"-">> \o natToString(0 - n) ELSE natToString(n)

(***************************************************************************)
(* JSON values: a request body and the values inside it                    *)
(***************************************************************************)
Num(n) == [t |-> "number", n |-> n]
Str(s) == [t |-> "string", s |-> s]
Arr(a) == [t |-> "array", a |-> a]
\* an object keeps its keys in insertion order: a sequence of [k, v]
Obj(o) == [t |-> "object", o |-> o]
KV(k, v) == [k |-> k, v |-> v]

hasKey(obj, k) == \E i \in 1..Len(obj.o) : obj.o[i].k = k
getKey(obj, k) == (obj.o[CHOOSE i \in 1..Len(obj.o) : obj.o[i].k = k]).v

\* String(v) of a JSON scalar, as join() prints an enum value
valueToString(v) == IF v.t = "number" THEN numberToString(v.n) ELSE v.s

typeName(t) ==
  CASE t = "string" -> s_string [] t = "number" -> s_number
    [] t = "object" -> s_object [] t = "array" -> s_array

(***************************************************************************)
(* checkSchemaForFileRequirements (model routes)                           *)
(* A schema node is a record that has only the keywords it declares.       *)
(* properties is a sequence of [k, v] (Object.keys order).                 *)
(***************************************************************************)
fileKeywords == <<s_file, s_files, s_upload, s_image, s_document>>

matchesFileKeyword_caseSensitive(name) ==
  \E i \in 1..Len(fileKeywords) : includes(name, fileKeywords[i])

\* fileKeywords.some(keyword => key.toLowerCase().includes(keyword))
matchesFileKeyword(name) ==
  \E i \in 1..Len(fileKeywords) : includes(toLowerCase(name), fileKeywords[i])

RECURSIVE checkObject(_)
checkObject(obj) ==
  \/ /\ "properties" \in DOMAIN obj
     /\ \E i \in 1..Len(obj.properties) :
          \/ matchesFileKeyword(obj.properties[i].k)
          \/ checkObject(obj.properties[i].v)
  \/ /\ "required" \in DOMAIN obj
     /\ \E i \in 1..Len(obj.required) : matchesFileKeyword(obj.required[i])
  \/ /\ "items" \in DOMAIN obj
     /\ checkObject(obj.items)
  \/ /\ "anyOf" \in DOMAIN obj
     /\ \E i \in 1..Len(obj.anyOf) : checkObject(obj.anyOf[i])
  \/ /\ "oneOf" \in DOMAIN obj
     /\ \E i \in 1..Len(obj.oneOf) : checkObject(obj.oneOf[i])
  \/ /\ "allOf" \in DOMAIN obj
     /\ \E i \in 1..Len(obj.allOf) : checkObject(obj.allOf[i])

checkSchemaForFileRequirements(schema) == checkObject(schema)

(***************************************************************************)
(* Ajv, as createDynamicValidationMiddleware configures it.                *)
(* An error is [keyword, instancePath, schemaPath, params, data]           *)
(* (verbose: true adds data).  Keyword groups run in Ajv's rule order:     *)
(* untyped rules (enum), then number, string, array and object rules; the  *)
(* type check is made first when the schema has no rule for its type and   *)
(* inside the type's group otherwise.                                      *)
(***************************************************************************)
ajvOptions_firstError ==
  [allErrors |-> FALSE, verbose |-> TRUE, removeAdditional |-> FALSE, useDefaults |-> FALSE]

\* an Ajv that fills in the defaults of the schema
ajvOptions_useDefaults ==
  [allErrors |-> TRUE, verbose |-> TRUE, removeAdditional |-> FALSE, useDefaults |-> TRUE]

\* new Ajv({allErrors, verbose, strict, removeAdditional}); useDefaults is
\* not given and is off
ajvOptions ==
  [allErrors |-> TRUE, verbose |-> TRUE, removeAdditional |-> FALSE, useDefaults |-> FALSE]

groupKeywords(g) ==
  CASE g = "number" -> {"maximum", "minimum"}
    [] g = "string" -> {"maxLength", "minLength"}
    [] g = "array" -> {"items"}
    [] g = "object" -> {"required", "additionalProperties", "properties"}

shouldUseGroup(schema, g) == groupKeywords(g) \cap DOMAIN schema # {}

ajvError(keyword, ip, sp, params, data) ==
  [keyword |-> keyword, instancePath |-> ip, schemaPath |-> sp \o s_slash \o keyword,
   params |-> params, data |-> data]

RECURSIVE ajvErrors(_, _, _, _)
ajvErrors(schema, data, ip, sp) ==
  LET has(k) == k \in DOMAIN schema
      typeError == ajvError(s_type, ip, sp, [type |-> typeName(schema.type)], data)
      deferred == has("type") /\ shouldUseGroup(schema, schema.type)
      upfront ==
        IF has("type") /\ ~deferred /\ data.t # schema.type THEN <<typeError>> ELSE <<>>
      untyped ==
        IF has("enum") /\ ~(\E i \in 1..Len(schema.enum) : schema.enum[i] = data)
        THEN <<ajvError(s_enum, ip, sp, [allowedValues |-> schema.enum], data)>>
        ELSE <<>>
      numberRules ==
        (IF has("maximum") /\ data.n > schema.maximum
         THEN <<ajvError(s_maximum, ip, sp, [limit |-> schema.maximum], data)>> ELSE <<>>)
        \o
        (IF has("minimum") /\ data.n < schema.minimum
         THEN <<ajvError(s_minimum, ip, sp, [limit |-> schema.minimum], data)>> ELSE <<>>)
      stringRules ==
        (IF has("maxLength") /\ Len(data.s) > schema.maxLength
         THEN <<ajvError(s_maxLength, ip, sp, [limit |-> schema.maxLength], data)>> ELSE <<>>)
        \o
        (IF has("minLength") /\ Len(data.s) < schema.minLength
         THEN <<ajvError(s_minLength, ip, sp, [limit |-> schema.minLength], data)>> ELSE <<>>)
      arrayRules ==
        IF has("items")
        THEN ConcatAll([i \in 1..Len(data.a) |->
               ajvErrors(schema.items, data.a[i],
                         ip \o s_slash \o natToString(i - 1), sp \o s_slash \o s_items)])
        ELSE <<>>
      requiredRule ==
        IF has("required")
        THEN ConcatAll([i \in 1..Len(schema.required) |->
               IF hasKey(data, schema.required[i]) THEN <<>>
               ELSE <<ajvError(s_required, ip, sp,
                               [missingProperty |-> schema.required[i]], data)>>])
        ELSE <<>>
      declared(k) ==
        has("properties") /\ \E j \in 1..Len(schema.properties) : schema.properties[j].k = k
      additionalRule ==
        IF has("additionalProperties") /\ schema.additionalProperties = FALSE
        THEN ConcatAll([i \in 1..Len(data.o) |->
               IF declared(data.o[i].k) THEN <<>>
               ELSE <<ajvError(s_additionalProperties, ip, sp,
                               [additionalProperty |-> data.o[i].k], data)>>])
        ELSE <<>>
      propertiesRule ==
        IF has("properties")
        THEN ConcatAll([i \in 1..Len(schema.properties) |->
               IF hasKey(data, schema.properties[i].k)
               THEN ajvErrors(schema.properties[i].v, getKey(data, schema.properties[i].k),
                              ip \o s_slash \o schema.properties[i].k,
                              sp \o s_slash \o s_properties \o s_slash \o schema.properties[i].k)
               ELSE <<>>])
        ELSE <<>>
      rulesOf(g) ==
        CASE g = "number" -> numberRules
          [] g = "string" -> stringRules
          [] g = "array" -> arrayRules
          [] g = "object" -> requiredRule \o additionalRule \o propertiesRule
      group(g) ==
        IF ~shouldUseGroup(schema, g) THEN <<>>
        ELSE IF data.t = g THEN rulesOf(g)
        ELSE IF deferred /\ schema.type = g THEN <<typeError>>
        ELSE <<>>
  IN upfront \o untyped \o group("number") \o group("string") \o group("array") \o group("object")

\* validate(body) of a schema compiled with the given options: validate.errors
ajvValidate(options, schema, body) ==
  LET all == ajvErrors(schema, body, <<>>, s_hash)
  IN IF options.allErrors \/ Len(all) = 0 THEN all ELSE <<Head(all)>>

(***************************************************************************)
(* validateRequestBody, formatErrorMessage, getAllowedValues               *)
(***************************************************************************)
\* error.instancePath?.substring(1) || 'root'
pathOrRoot(error) ==
  IF Len(substring1(error.instancePath)) = 0 THEN s_root ELSE substring1(error.instancePath)

formatErrorMessage(error) ==
  LET keyword == error.keyword
      params == error.params
  IN CASE keyword = s_required -> m_Field \o params.missingProperty \o m_isRequired
       [] keyword = s_type -> m_Field \o pathOrRoot(error) \o m_mustBeType \o params.type
       [] keyword = s_minimum ->
            m_Field \o pathOrRoot(error) \o m_atLeast \o numberToString(params.limit)
       [] keyword = s_maximum ->
            m_Field \o pathOrRoot(error) \o m_atMost \o numberToString(params.limit)
       [] keyword = s_minLength ->
            m_Field \o pathOrRoot(error) \o m_atLeast \o numberToString(params.limit)
              \o m_charsLong
       [] keyword = s_maxLength ->
            m_Field \o pathOrRoot(error) \o m_atMost \o numberToString(params.limit)
              \o m_charsLong
       [] keyword = s_enum ->
            m_Field \o pathOrRoot(error) \o m_oneOf
              \o join([i \in 1..Len(params.allowedValues) |->
                         valueToString(params.allowedValues[i])], m_commaSp)
       [] keyword = s_additionalProperties -> m_Field \o pathOrRoot(error) \o m_additional

getAllowedValues(error) ==
  IF error.keyword = s_enum THEN <<error.params.allowedValues>> ELSE <<>>

\* error.instancePath ? error.instancePath.substring(1) : error.schemaPath
errorField(error) ==
  IF Len(error.instancePath) # 0 THEN substring1(error.instancePath) ELSE error.schemaPath

\* one ValidationErrorDetail; allowedValues is <<>> for undefined, <<list>> otherwise
errorDetail(error) ==
  [field |-> IF Len(errorField(error)) = 0 THEN s_root ELSE errorField(error),
   message |-> formatErrorMessage(error),
   value |-> error.data,
   allowedValues |-> getAllowedValues(error)]

validateRequestBody(body, schema, options) ==
  LET errors == ajvValidate(options, schema, body)
  IN IF Len(errors) = 0
     THEN [isValid |-> TRUE, errors |-> <<>>]
     ELSE [isValid |-> FALSE, errors |-> [i \in 1..Len(errors) |-> errorDetail(errors[i])]]

\* the body after validate(body): Ajv writes into the object it validates
\* only what its options ask for; with useDefaults it assigns the default of
\* each property of the schema that the object lacks
ajvData(options, schema, body) ==
  IF ~options.useDefaults \/ body.t # "object" \/ "properties" \notin DOMAIN schema
  THEN body
  ELSE LET missing == SelectSeq(schema.properties,
                        LAMBDA p : "default" \in DOMAIN p.v /\ ~hasKey(body, p.k))
       IN Obj(body.o \o [i \in 1..Len(missing) |-> KV(missing[i].k, missing[i].v.default)])

(***************************************************************************)
(* Schemas and bodies given to the validator and to the file check         *)
(***************************************************************************)
\* the schema of the scenario: register model echo
echoSchema ==
  [type |-> "object", required |-> <<s_text>>,
   properties |-> <<KV(s_text, [type |-> "string", minLength |-> 1])>>]

\* configSchema of plugins/google-vision-ocr, its validated keywords
ocrSchema ==
  [type |-> "object",
   properties |-> <<KV(s_imageFile, [type |-> "string"]),
                    KV(s_language, [type |-> "string", default |-> Str(s_en)]),
                    KV(s_maxResults, [type |-> "number", minimum |-> 1, maximum |-> 100])>>,
   required |-> <<s_imageFile>>,
   additionalProperties |-> FALSE]

\* configSchema of plugins/google-text-bison, its validated keywords
bisonSchema ==
  [type |-> "object",
   properties |-> <<KV(s_prompt, [type |-> "string", minLength |-> 1, maxLength |-> 8192]),
                    KV(s_maxResults, [type |-> "number", minimum |-> 1, maximum |-> 1024])>>,
   required |-> <<s_prompt>>,
   additionalProperties |-> TRUE]

PropSchemas ==
  { [type |-> "string"],
    [type |-> "string", minLength |-> 1],
    [type |-> "number", minimum |-> 1],
    [type |-> "string", minLength |-> 1, enum |-> <<Str(s_en), Str(s_fr)>>] }

RequiredLists == { <<>>, <<s_a>>, <<s_b>>, <<s_a, s_b>> }

abSchema(pa, pb, req, extra) ==
  LET base == [type |-> "object", required |-> req,
               properties |-> <<KV(s_a, pa), KV(s_b, pb)>>]
  IN IF extra THEN base
     ELSE [type |-> "object", required |-> req,
           properties |-> <<KV(s_a, pa), KV(s_b, pb)>>, additionalProperties |-> FALSE]

\* an object property with its own required list, and an array of constrained items
nestedSchema ==
  [type |-> "object", required |-> <<s_meta>>,
   properties |-> <<KV(s_meta, [type |-> "object", required |-> <<s_a>>,
                                properties |-> <<KV(s_a, [type |-> "number", minimum |-> 1])>>]),
                    KV(s_b, [type |-> "array", items |-> [type |-> "string", minLength |-> 1]])>>]

ValidationSchemas ==
  { abSchema(pa, pb, req, extra) :
      pa \in PropSchemas, pb \in PropSchemas, req \in RequiredLists, extra \in BOOLEAN }
  \cup { echoSchema, ocrSchema, bisonSchema, nestedSchema }

BodyValues == { Num(5), Num(0), Str(s_hi), Str(<<>>), Str(s_en) }

abBodies ==
  { Obj(<<>>) }
  \cup { Obj(<<KV(s_a, va)>>) : va \in BodyValues }
  \cup { Obj(<<KV(s_b, vb)>>) : vb \in BodyValues }
  \cup { Obj(<<KV(s_a, va), KV(s_b, vb)>>) : va \in BodyValues, vb \in BodyValues }

ProbeBodies ==
  abBodies
  \cup { Obj(<<KV(s_text, Str(s_hi))>>), Obj(<<KV(s_text, Str(<<>>))>>),
         Obj(<<KV(s_text, Num(5)), KV(s_a, Num(0))>>),
         Obj(<<KV(s_prompt, Str(s_hi)), KV(s_maxResults, Num(0))>>),
         Obj(<<KV(s_language, Num(5)), KV(s_maxResults, Num(5)), KV(s_prompt, Str(s_hi))>>),
         Obj(<<KV(s_meta, Obj(<<>>)), KV(s_b, Arr(<<Str(<<>>), Num(5), Str(s_hi)>>))>>),
         Obj(<<KV(s_meta, Num(0)), KV(s_b, Str(s_hi))>>) }

GateNames == { s_prompt, s_imageFile, s_profileData, s_Document, s_text, s_maxResults, s_a }

GatePositions ==
  { "property", "required", "nested", "items", "itemsRequired", "anyOf", "oneOf", "allOf",
    "description" }

\* a schema in which name n occurs at one position and no other name matches
gateSchema(pos, n) ==
  LET leaf == [type |-> "string"]
      holder == [type |-> "object", properties |-> <<KV(n, leaf)>>]
  IN CASE pos = "property" -> [type |-> "object", properties |-> <<KV(s_b, leaf), KV(n, leaf)>>]
       [] pos = "required" -> [type |-> "object", required |-> <<s_b, n>>]
       [] pos = "nested" -> [type |-> "object", properties |-> <<KV(s_meta, holder)>>]
       [] pos = "items" ->
            [type |-> "object",
             properties |-> <<KV(s_b, [type |-> "array", items |-> holder])>>]
       [] pos = "itemsRequired" -> [type |-> "array", items |-> [required |-> <<n>>]]
       [] pos = "anyOf" -> [anyOf |-> <<[type |-> "string"], holder>>]
       [] pos = "oneOf" -> [oneOf |-> <<holder, [type |-> "number"]>>]
       [] pos = "allOf" -> [allOf |-> <<[required |-> <<s_b>>], [required |-> <<n>>]>>]
       [] pos = "description" -> [type |-> "object", description |-> n,
                                  properties |-> <<KV(s_b, leaf)>>]

GateSchemas == { gateSchema(pos, n) : pos \in GatePositions, n \in GateNames }

(***************************************************************************)
(* The validator and the file check applied to one input                   *)
(***************************************************************************)
ProbeInit ==
  \/ \E sch \in ValidationSchemas, body \in ProbeBodies :
       probe = [kind |-> "validation", schema |-> sch, body |-> body,
                validated |-> FALSE, validation |-> [isValid |-> TRUE, errors |-> <<>>],
                gated |-> FALSE, multipart |-> FALSE]
  \/ \E sch \in GateSchemas :
       probe = [kind |-> "gate", schema |-> sch, body |-> Obj(<<>>),
                validated |-> FALSE, validation |-> [isValid |-> TRUE, errors |-> <<>>],
                gated |-> FALSE, multipart |-> FALSE]

\* validateRequestBody(req.body, configSchema, ajv)
ProbeValidate ==
  /\ probe.kind = "validation"
  /\ ~probe.validated
  /\ probe' = [probe EXCEPT !.validated = TRUE,
                            !.validation = validateRequestBody(probe.body, probe.schema,
                                                               ajvOptions)]
  /\ UNCHANGED <<registryVars, requests, nodeEnv, serverPc>>

\* const hasFileRequirements = checkSchemaForFileRequirements(schema)
ProbeGate ==
  /\ ~probe.gated
  /\ probe' = [probe EXCEPT !.gated = TRUE,
                            !.multipart = checkSchemaForFileRequirements(probe.schema)]
  /\ UNCHANGED <<registryVars, requests, nodeEnv, serverPc>>

(***************************************************************************)
(* JavaScript values handed to register() and exported by plugin modules   *)
(***************************************************************************)
jsNull == [t |-> "null"]
jsString(s) == [t |-> "string", s |-> s]
jsNumber(n) == [t |-> "number", n |-> n]
jsObject(x) == [t |-> "object", x |-> x]
jsFunction(c) == [t |-> "function", c |-> c]

typeof(v) == IF v.t = "null" THEN "object" ELSE v.t

\* !v is false
truthy(v) ==
  CASE v.t = "null" -> FALSE
    [] v.t = "string" -> Len(v.s) # 0
    [] v.t = "number" -> v.n # 0
    [] OTHER -> TRUE

(***************************************************************************)
(* Map<string, V>: entries in insertion order                              *)
(***************************************************************************)
mapHas(m, k) == \E i \in 1..Len(m) : m[i].k = k
mapGet(m, k) == (m[CHOOSE i \in 1..Len(m) : m[i].k = k]).v
mapSet(m, k, v) ==
  IF mapHas(m, k) THEN [i \in 1..Len(m) |-> IF m[i].k = k THEN KV(k, v) ELSE m[i]]
  ELSE Append(m, KV(k, v))
mapDelete(m, k) == SelectSeq(m, LAMBDA e : e.k # k)
mapKeys(m) == [i \in 1..Len(m) |-> m[i].k]
keySet(m) == { m[i].k : i \in 1..Len(m) }

noError == [name |-> "none"]

(***************************************************************************)
(* ModelFactory                                                            *)
(* Each operation yields [map, threw, ...]: the map afterwards and the     *)
(* error thrown (noError when it returns).                                 *)
(***************************************************************************)
\* register without the has() check: the last registration overwrites
factoryRegister_overwrite(map, modelId, creator) ==
  [map |-> mapSet(map, modelId, creator), threw |-> noError]

factoryRegister(map, modelId, creator) ==
  IF mapHas(map, modelId)
  THEN [map |-> map,
        threw |-> [name |-> "Error", what |-> "strategy already registered", id |-> modelId]]
  ELSE [map |-> mapSet(map, modelId, creator), threw |-> noError]

isRegistered(map, modelId) == mapHas(map, modelId)

getRegisteredModels(map) == mapKeys(map)

factoryUnregister(map, modelId) ==
  [map |-> mapDelete(map, modelId), returned |-> mapHas(map, modelId)]

\* a strategy instance as its constructor leaves it
newInstance(modelId, creator) == [modelId |-> modelId, class |-> creator.class, state |-> 0]

\* create that keeps one instance per model ID and hands it out again
factoryCreate_singleton(map, heap, modelId) ==
  IF ~mapHas(map, modelId)
  THEN [map |-> map, heap |-> heap, ref |-> 0,
        threw |-> [name |-> "Error", what |-> "strategy not registered", id |-> modelId]]
  ELSE IF \E r \in 1..Len(heap) : heap[r].modelId = modelId
  THEN [map |-> map, heap |-> heap,
        ref |-> CHOOSE r \in 1..Len(heap) : heap[r].modelId = modelId, threw |-> noError]
  ELSE [map |-> map, heap |-> Append(heap, newInstance(modelId, mapGet(map, modelId))),
        ref |-> Len(heap) + 1, threw |-> noError]

\* create that takes the creator out of the map once it has been used
factoryCreate_consuming(map, heap, modelId) ==
  IF ~mapHas(map, modelId)
  THEN [map |-> map, heap |-> heap, ref |-> 0,
        threw |-> [name |-> "Error", what |-> "strategy not registered", id |-> modelId]]
  ELSE [map |-> mapDelete(map, modelId),
        heap |-> Append(heap, newInstance(modelId, mapGet(map, modelId))),
        ref |-> Len(heap) + 1, threw |-> noError]

\* create: return creator(); the creator is () => new ModelStrategy().
\* map is the Factory's map after the call (create only reads it), heap holds
\* every object allocated, ref is the object returned.
factoryCreate(map, heap, modelId) ==
  IF ~mapHas(map, modelId)
  THEN [map |-> map, heap |-> heap, ref |-> 0,
        threw |-> [name |-> "Error", what |-> "strategy not registered", id |-> modelId]]
  ELSE [map |-> map, heap |-> Append(heap, newInstance(modelId, mapGet(map, modelId))),
        ref |-> Len(heap) + 1, threw |-> noError]

(***************************************************************************)
(* SchemaRegistry                                                          *)
(***************************************************************************)
\* register without the has() check
registryRegister_overwrite(map, modelId, schema) ==
  IF ~truthy(schema) \/ typeof(schema) # "object"
  THEN [map |-> map, threw |-> [name |-> "Error", what |-> "invalid schema", id |-> modelId]]
  ELSE [map |-> mapSet(map, modelId, schema.x), threw |-> noError]

registryRegister(map, modelId, schema) ==
  IF mapHas(map, modelId)
  THEN [map |-> map,
        threw |-> [name |-> "Error", what |-> "schema already registered", id |-> modelId]]
  ELSE IF ~truthy(schema) \/ typeof(schema) # "object"
  THEN [map |-> map, threw |-> [name |-> "Error", what |-> "invalid schema", id |-> modelId]]
  ELSE [map |-> mapSet(map, modelId, schema.x), threw |-> noError]

\* getSchema: [schema, threw, map]; schema is meaningful only when nothing is
\* thrown, map is the Registry's map after the call (getSchema only reads it)
getSchema(map, modelId) ==
  IF mapHas(map, modelId)
  THEN [schema |-> mapGet(map, modelId), threw |-> noError, map |-> map]
  ELSE [schema |-> [type |-> "object"], map |-> map,
        threw |-> [name |-> "Error", what |-> "schema not registered", id |-> modelId]]

hasSchema(map, modelId) == mapHas(map, modelId)

registryUnregister(map, modelId) ==
  [map |-> mapDelete(map, modelId), returned |-> mapHas(map, modelId)]

registryClear(map) == <<>>

(***************************************************************************)
(* Plugin loader: loadPlugins, loadSinglePlugin, validatePluginModule      *)
(***************************************************************************)
requiredExports == <<"modelId", "configSchema", "ModelStrategy">>

\* validatePluginModule that names only the first missing export
validatePluginModule_firstMissing(module, pluginDir) ==
  LET missingExports == SelectSeq(requiredExports, LAMBDA e : e \notin DOMAIN module)
  IN IF Len(missingExports) > 0
     THEN [name |-> "Error", what |-> "missing required exports", plugin |-> pluginDir,
           missing |-> <<Head(missingExports)>>]
     ELSE IF typeof(module.modelId) # "string"
     THEN [name |-> "Error", what |-> "modelId must be a string", plugin |-> pluginDir]
     ELSE IF typeof(module.configSchema) # "object" \/ module.configSchema.t = "null"
     THEN [name |-> "Error", what |-> "configSchema must be an object", plugin |-> pluginDir]
     ELSE IF typeof(module.ModelStrategy) # "function"
     THEN [name |-> "Error", what |-> "ModelStrategy must be a constructor function",
           plugin |-> pluginDir]
     ELSE noError

\* validatePluginModule without the check of configSchema's type
validatePluginModule_noSchemaCheck(module, pluginDir) ==
  LET missingExports == SelectSeq(requiredExports, LAMBDA e : e \notin DOMAIN module)
  IN IF Len(missingExports) > 0
     THEN [name |-> "Error", what |-> "missing required exports", plugin |-> pluginDir,
           missing |-> missingExports]
     ELSE IF typeof(module.modelId) # "string"
     THEN [name |-> "Error", what |-> "modelId must be a string", plugin |-> pluginDir]
     ELSE IF typeof(module.ModelStrategy) # "function"
     THEN [name |-> "Error", what |-> "ModelStrategy must be a constructor function",
           plugin |-> pluginDir]
     ELSE noError

\* validatePluginModule: the error thrown, or noError
validatePluginModule(module, pluginDir) ==
  LET missingExports == SelectSeq(requiredExports, LAMBDA e : e \notin DOMAIN module)
  IN IF Len(missingExports) > 0
     THEN [name |-> "Error", what |-> "missing required exports", plugin |-> pluginDir,
           missing |-> missingExports]
     ELSE IF typeof(module.modelId) # "string"
     THEN [name |-> "Error", what |-> "modelId must be a string", plugin |-> pluginDir]
     ELSE IF typeof(module.configSchema) # "object" \/ module.configSchema.t = "null"
     THEN [name |-> "Error", what |-> "configSchema must be an object", plugin |-> pluginDir]
     ELSE IF typeof(module.ModelStrategy) # "function"
     THEN [name |-> "Error", what |-> "ModelStrategy must be a constructor function",
           plugin |-> pluginDir]
     ELSE noError

\* the part of loadSinglePlugin that runs once import() has resolved:
\* [factory, registry, threw]
registerPlugin(factory, registry, module, pluginDir) ==
  LET invalid == validatePluginModule(module, pluginDir)
      r1 == factoryRegister(factory, module.modelId.s, [class |-> module.ModelStrategy.c])
      r2 == registryRegister(registry, module.modelId.s, module.configSchema)
  IN IF invalid # noError THEN [factory |-> factory, registry |-> registry, threw |-> invalid]
     ELSE IF r1.threw # noError
     THEN [factory |-> factory, registry |-> registry, threw |-> r1.threw]
     ELSE [factory |-> r1.map, registry |-> r2.map, threw |-> r2.threw]

\* what a plugin directory can hold
goodModule(id, schema, class) ==
  [modelId |-> jsString(id), configSchema |-> jsObject(schema), ModelStrategy |-> jsFunction(class)]

pluginEchoA == [entry |-> "index.ts", import |-> "ok",
                module |-> goodModule(id_echo, echoSchema, "EchoStrategy")]
\* a second plugin that declares the same modelId
pluginEchoB == [entry |-> "index.js", import |-> "ok",
                module |-> goodModule(id_echo, bisonSchema, "OtherEchoStrategy")]
pluginOcr == [entry |-> "index.ts", import |-> "ok",
              module |-> goodModule(id_ocr, ocrSchema, "OcrStrategy")]
pluginNoEntry == [entry |-> "none", import |-> "ok",
                  module |-> goodModule(id_ocr, ocrSchema, "OcrStrategy")]
pluginImportRejects == [entry |-> "index.ts", import |-> "rejects",
                        module |-> goodModule(id_ocr, ocrSchema, "OcrStrategy")]
pluginMissingStrategy ==
  [entry |-> "index.ts", import |-> "ok",
   module |-> [modelId |-> jsString(id_ocr), configSchema |-> jsObject(ocrSchema)]]
pluginMissingTwo ==
  [entry |-> "index.ts", import |-> "ok", module |-> [configSchema |-> jsObject(echoSchema)]]
pluginBadModelId ==
  [entry |-> "index.ts", import |-> "ok",
   module |-> [modelId |-> jsNumber(5), configSchema |-> jsObject(ocrSchema),
               ModelStrategy |-> jsFunction("OcrStrategy")]]
pluginNullSchema ==
  [entry |-> "index.ts", import |-> "ok",
   module |-> [modelId |-> jsString(id_ocr), configSchema |-> jsNull,
               ModelStrategy |-> jsFunction("OcrStrategy")]]

PluginDirs == {"p1", "p2", "p3"}

PluginChoices ==
  [p1 |-> {pluginEchoA, pluginMissingTwo},
   p2 |-> {pluginEchoB, pluginMissingStrategy, pluginNoEntry},
   p3 |-> {pluginOcr, pluginNullSchema, pluginImportRejects, pluginBadModelId}]

noCall == [op |-> "none", id |-> <<>>, threw |-> noError, ref |-> 0]

RegistryIdle ==
  /\ strategyRegistry = <<>>
  /\ schemaMap = <<>>
  /\ pluginPc = [d \in PluginDirs |-> "pending"]
  /\ loaderPc = "idle"
  /\ failures = <<>>
  /\ lastCall = noCall
  /\ directCalls = <<>>
  /\ instances = [heap |-> <<>>, returned |-> <<>>]

\* loadPlugins up to the map over pluginDirectories
StartLoad ==
  /\ loaderPc = "idle"
  /\ loaderPc' = IF plugins.access = "missing" THEN "done"
                 ELSE IF plugins.readdir = "error" THEN "threw"
                 ELSE "loading"
  /\ UNCHANGED <<strategyRegistry, schemaMap, plugins, pluginPc, failures, lastCall,
                 directCalls, instances, requests, nodeEnv, serverPc, probe>>

\* loadSinglePlugin up to await import(): look for index.ts, then index.js
LocateEntry(d) ==
  /\ loaderPc = "loading"
  /\ pluginPc[d] = "pending"
  /\ IF plugins.dirs[d].entry = "none"
     THEN /\ pluginPc' = [pluginPc EXCEPT ![d] = "failed"]
          /\ failures' = Append(failures,
               [plugin |-> d, error |-> [name |-> "Error", what |-> "no index found",
                                         plugin |-> d]])
     ELSE /\ pluginPc' = [pluginPc EXCEPT ![d] = "located"]
          /\ UNCHANGED failures
  /\ UNCHANGED <<strategyRegistry, schemaMap, plugins, loaderPc, lastCall, directCalls,
                 instances, requests, nodeEnv, serverPc, probe>>

\* loadSinglePlugin from the moment import() settles to its end, and the
\* try/catch around it in loadPlugins
ImportAndRegister(d) ==
  /\ loaderPc = "loading"
  /\ pluginPc[d] = "located"
  /\ LET r == IF plugins.dirs[d].import = "rejects"
              THEN [factory |-> strategyRegistry, registry |-> schemaMap,
                    threw |-> [name |-> "Error", what |-> "import failed", plugin |-> d]]
              ELSE registerPlugin(strategyRegistry, schemaMap, plugins.dirs[d].module, d)
     IN /\ strategyRegistry' = r.factory
        /\ schemaMap' = r.registry
        /\ IF r.threw = noError
           THEN /\ pluginPc' = [pluginPc EXCEPT ![d] = "loaded"]
                /\ UNCHANGED failures
           ELSE /\ pluginPc' = [pluginPc EXCEPT ![d] = "failed"]
                /\ failures' = Append(failures, [plugin |-> d, error |-> r.threw])
  /\ UNCHANGED <<plugins, loaderPc, lastCall, directCalls, instances, requests, nodeEnv, serverPc, probe>>

\* await Promise.allSettled(loadPromises) and the closing console.info
FinishLoad ==
  /\ loaderPc = "loading"
  /\ \A d \in PluginDirs : pluginPc[d] \in {"loaded", "failed"}
  /\ loaderPc' = "done"
  /\ UNCHANGED <<strategyRegistry, schemaMap, plugins, pluginPc, failures, lastCall,
                 directCalls, instances, requests, nodeEnv, serverPc, probe>>

(***************************************************************************)
(* Calls made on the two singletons from outside the loader                *)
(***************************************************************************)
MaxDirectCalls == 2

DirectIds == {id_echo, id_ocr}
DirectCreators == {[class |-> "EchoStrategy"], [class |-> "StubStrategy"]}
DirectSchemas == {jsObject(bisonSchema), jsNull}

\* modelFactory.register(modelId, creator)
CallFactoryRegister(id, creator) ==
  /\ Len(directCalls) < MaxDirectCalls
  /\ LET r == factoryRegister(strategyRegistry, id, creator)
     IN /\ strategyRegistry' = r.map
        /\ lastCall' = [op |-> "Factory.register", id |-> id, threw |-> r.threw, ref |-> 0]
  /\ directCalls' = Append(directCalls, "Factory.register")
  /\ UNCHANGED <<schemaMap, plugins, pluginPc, loaderPc, failures, instances, requests,
                 nodeEnv, serverPc, probe>>

\* modelFactory.unregister(modelId)
CallFactoryUnregister(id) ==
  /\ Len(directCalls) < MaxDirectCalls
  /\ strategyRegistry' = factoryUnregister(strategyRegistry, id).map
  /\ lastCall' = [op |-> "Factory.unregister", id |-> id, threw |-> noError, ref |-> 0]
  /\ directCalls' = Append(directCalls, "Factory.unregister")
  /\ UNCHANGED <<schemaMap, plugins, pluginPc, loaderPc, failures, instances, requests,
                 nodeEnv, serverPc, probe>>

\* schemaRegistry.register(modelId, schema)
CallRegistryRegister(id, schema) ==
  /\ Len(directCalls) < MaxDirectCalls
  /\ LET r == registryRegister(schemaMap, id, schema)
     IN /\ schemaMap' = r.map
        /\ lastCall' = [op |-> "Registry.register", id |-> id, threw |-> r.threw, ref |-> 0]
  /\ directCalls' = Append(directCalls, "Registry.register")
  /\ UNCHANGED <<strategyRegistry, plugins, pluginPc, loaderPc, failures, instances,
                 requests, nodeEnv, serverPc, probe>>

\* schemaRegistry.unregister(modelId)
CallRegistryUnregister(id) ==
  /\ Len(directCalls) < MaxDirectCalls
  /\ schemaMap' = registryUnregister(schemaMap, id).map
  /\ lastCall' = [op |-> "Registry.unregister", id |-> id, threw |-> noError, ref |-> 0]
  /\ directCalls' = Append(directCalls, "Registry.unregister")
  /\ UNCHANGED <<strategyRegistry, plugins, pluginPc, loaderPc, failures, instances,
                 requests, nodeEnv, serverPc, probe>>

\* schemaRegistry.clear()
CallRegistryClear ==
  /\ Len(directCalls) < MaxDirectCalls
  /\ schemaMap' = registryClear(schemaMap)
  /\ lastCall' = [op |-> "Registry.clear", id |-> <<>>, threw |-> noError, ref |-> 0]
  /\ directCalls' = Append(directCalls, "Registry.clear")
  /\ UNCHANGED <<strategyRegistry, plugins, pluginPc, loaderPc, failures, instances,
                 requests, nodeEnv, serverPc, probe>>

DirectCall ==
  \/ \E id \in DirectIds, creator \in DirectCreators : CallFactoryRegister(id, creator)
  \/ \E id \in DirectIds : CallFactoryUnregister(id)
  \/ \E id \in DirectIds, schema \in DirectSchemas : CallRegistryRegister(id, schema)
  \/ \E id \in DirectIds : CallRegistryUnregister(id)
  \/ CallRegistryClear

(***************************************************************************)
(* Start-up loading together with calls on the singletons                  *)
(***************************************************************************)
probeOff ==
  [kind |-> "off", schema |-> [type |-> "object"], body |-> Obj(<<>>),
   validated |-> FALSE, validation |-> [isValid |-> TRUE, errors |-> <<>>],
   gated |-> FALSE, multipart |-> FALSE]

PluginsDirStates ==
  { [access |-> "ok", readdir |-> "ok"], [access |-> "ok", readdir |-> "error"],
    [access |-> "missing", readdir |-> "ok"] }

InitRegistry ==
  /\ RegistryIdle
  /\ \E fs \in PluginsDirStates :
       \E p1 \in PluginChoices.p1, p2 \in PluginChoices.p2, p3 \in PluginChoices.p3 :
         plugins = [access |-> fs.access, readdir |-> fs.readdir,
                    dirs |-> [p1 |-> p1, p2 |-> p2, p3 |-> p3]]
  /\ requests = <<>>
  /\ nodeEnv = "production"
  /\ probe = probeOff
  /\ serverPc = "starting"

NextRegistry ==
  \/ StartLoad
  \/ \E d \in PluginDirs : LocateEntry(d)
  \/ \E d \in PluginDirs : ImportAndRegister(d)
  \/ FinishLoad
  \/ DirectCall

SpecRegistry == InitRegistry /\ [][NextRegistry]_vars

(***************************************************************************)
(* The validator and the file check on their own                           *)
(***************************************************************************)
InitProbe ==
  /\ RegistryIdle
  /\ plugins = [access |-> "missing", readdir |-> "ok",
                dirs |-> [p1 |-> pluginEchoA, p2 |-> pluginOcr, p3 |-> pluginOcr]]
  /\ requests = <<>>
  /\ nodeEnv = "production"
  /\ serverPc = "starting"
  /\ ProbeInit

NextProbe == ProbeValidate \/ ProbeGate

SpecProbe == InitProbe /\ [][NextProbe]_vars

(***************************************************************************)
(* ModelFactory on its own: register, unregister, create, and the          *)
(* strategy instances it has handed out                                    *)
(***************************************************************************)
MaxInstances == 3

\* modelFactory.create(modelId)
Create(id) ==
  /\ Len(instances.returned) < MaxInstances
  /\ LET r == factoryCreate(strategyRegistry, instances.heap, id)
     IN /\ instances' = [heap |-> r.heap,
                         returned |-> IF r.threw = noError
                                      THEN Append(instances.returned, r.ref)
                                      ELSE instances.returned]
        /\ lastCall' = [op |-> "Factory.create", id |-> id, threw |-> r.threw, ref |-> r.ref]
        /\ strategyRegistry' = r.map
  /\ UNCHANGED <<schemaMap, plugins, pluginPc, loaderPc, failures,
                 directCalls, requests, nodeEnv, serverPc, probe>>

\* the holder of a returned instance writes one of its fields
Mutate(k) ==
  /\ k \in 1..Len(instances.returned)
  /\ LET ref == instances.returned[k]
     IN /\ instances.heap[ref].state = 0
        /\ instances' = [instances EXCEPT !.heap[ref].state = 1]
  /\ lastCall' = [op |-> "mutate", id |-> <<>>, threw |-> noError, ref |-> instances.returned[k]]
  /\ UNCHANGED <<strategyRegistry, schemaMap, plugins, pluginPc, loaderPc, failures,
                 directCalls, requests, nodeEnv, serverPc, probe>>

InitFactory ==
  /\ RegistryIdle
  /\ plugins = [access |-> "missing", readdir |-> "ok",
                dirs |-> [p1 |-> pluginEchoA, p2 |-> pluginNoEntry, p3 |-> pluginOcr]]
  /\ requests = <<>>
  /\ nodeEnv = "production"
  /\ probe = probeOff
  /\ serverPc = "starting"

NextFactory ==
  \/ \E id \in DirectIds, creator \in DirectCreators : CallFactoryRegister(id, creator)
  \/ \E id \in DirectIds : CallFactoryUnregister(id)
  \/ \E id \in DirectIds : Create(id)
  \/ \E k \in 1..MaxInstances : Mutate(k)

SpecFactory == InitFactory /\ [][NextFactory]_vars

(***************************************************************************)
(* ApiError and the errors that travel through next(err)                   *)
(***************************************************************************)
ApiError(statusCode, message) ==
  [name |-> "ApiError", message |-> message, statusCode |-> statusCode]
badRequest(message) == ApiError(400, message)
unauthorized(message) == ApiError(401, message)
notFound(message) == ApiError(404, message)
\* new Error(message), and multer's MulterError(code)
plainError(message) == [name |-> "Error", message |-> message, statusCode |-> 0]
MulterError(code, message) ==
  [name |-> "MulterError", message |-> message, statusCode |-> 0, code |-> code]

(***************************************************************************)
(* apiKeyAuth                                                              *)
(***************************************************************************)
\* getValidApiKeys with no API_KEY_* and no DEFAULT_API_KEY in the environment
getValidApiKeys ==
  <<[id |-> "default", key |-> "default-key-change-in-production",
     permissions |-> <<"read", "write">>]>>

validateApiKey(apiKey) ==
  LET validKeys == getValidApiKeys
      found == { i \in 1..Len(validKeys) : validKeys[i].key = apiKey }
  IN IF found = {} THEN [isValid |-> FALSE, keyId |-> "", permissions |-> <<>>]
     ELSE LET keyEntry == validKeys[CHOOSE i \in found : \A j \in found : i <= j]
          IN [isValid |-> TRUE, keyId |-> keyEntry.id, permissions |-> keyEntry.permissions]

noUser == [apiKeyId |-> "", permissions |-> <<>>, authenticated |-> FALSE]

\* apiKeyAuth: [user, threw]; apiKey "" is the absent header
authenticate(apiKey) ==
  IF apiKey = ""
  THEN [user |-> noUser, threw |-> unauthorized(m_keyRequired)]
  ELSE LET validation == validateApiKey(apiKey)
       IN IF ~validation.isValid
          THEN [user |-> noUser, threw |-> unauthorized(m_keyInvalid)]
          ELSE [user |-> [apiKeyId |-> validation.keyId,
                          permissions |-> validation.permissions,
                          authenticated |-> TRUE],
                threw |-> noError]

(***************************************************************************)
(* The dynamic multer gate                                                 *)
(***************************************************************************)
\* limits of the multer instance
fileSizeLimit == 10485760
filesLimit == 5

allowedTypes ==
  <<mime_jpeg, mime_png, mime_gif, mime_webp, mime_text, mime_pdf, mime_json>>

\* a gate that configures upload handling when the model has no schema
createDynamicMulterMiddleware_uploadWhenUnknown(registry, modelId) ==
  LET found == getSchema(registry, modelId)
  IN IF found.threw # noError THEN "upload.any"
     ELSE IF ~checkSchemaForFileRequirements(found.schema) THEN "passthrough"
     ELSE "upload.any"

\* createDynamicMulterMiddleware: which middleware the route runs
createDynamicMulterMiddleware(registry, modelId) ==
  LET found == getSchema(registry, modelId)
  IN IF found.threw # noError THEN "passthrough"
     ELSE IF ~checkSchemaForFileRequirements(found.schema) THEN "passthrough"
     ELSE "upload.any"

\* upload.any() configured without fileFilter: only the limits end a parse
RECURSIVE multerParse_noFilter(_, _)
multerParse_noFilter(uploads, i) ==
  IF i > Len(uploads) THEN noError
  ELSE IF i > filesLimit THEN MulterError("LIMIT_FILE_COUNT", m_tooManyFiles)
  ELSE IF uploads[i].size > fileSizeLimit
  THEN MulterError("LIMIT_FILE_SIZE", m_fileTooLarge)
  ELSE multerParse_noFilter(uploads, i + 1)

\* upload.any() reading the parts of a multipart body in order: the first
\* part that breaks a limit or is refused by fileFilter ends the parse
RECURSIVE multerParse(_, _)
multerParse(uploads, i) ==
  IF i > Len(uploads) THEN noError
  ELSE IF i > filesLimit THEN MulterError("LIMIT_FILE_COUNT", m_tooManyFiles)
  ELSE IF \A k \in 1..Len(allowedTypes) : allowedTypes[k] # uploads[i].mimetype
  THEN plainError(ConcatAll(<<m_fileType, uploads[i].mimetype, m_isNotAllowed>>))
  ELSE IF uploads[i].size > fileSizeLimit
  THEN MulterError("LIMIT_FILE_SIZE", m_fileTooLarge)
  ELSE multerParse(uploads, i + 1)

(***************************************************************************)
(* Responses                                                               *)
(***************************************************************************)
noResponse == [sent |-> FALSE, status |-> 0, kind |-> "none", body |-> <<>>]

\* the 400 answer of the dynamic validation middleware that reports the
\* details under a data key
validationFailureBody_asData(path, errors) ==
  [success |-> FALSE, data |-> errors,
   error |-> [name |-> "ValidationError", message |-> m_validationFailed,
              statusCode |-> 400, path |-> path, method |-> "POST"]]

\* the 400 answer of the dynamic validation middleware
validationFailureBody(path, errors) ==
  [error |-> [name |-> "ValidationError", message |-> m_validationFailed,
              statusCode |-> 400, path |-> path, method |-> "POST",
              details |-> errors]]

\* the 200 answer of the model controller
invokeSuccessBody(modelId, result) ==
  [success |-> TRUE, data |-> result, metadata |-> [modelId |-> modelId]]

modelInfoBody(modelId) ==
  [success |-> TRUE, data |-> [modelId |-> modelId, available |-> TRUE]]

modelListBody(registeredModels) ==
  [success |-> TRUE,
   data |-> [models |-> [i \in 1..Len(registeredModels) |->
                           [modelId |-> registeredModels[i], available |-> TRUE]],
             total |-> Len(registeredModels)]]

\* a global error handler that answers with err.message in every environment
globalErrorHandler_unmasked(err, env) ==
  [sent |-> TRUE, status |-> 500, kind |-> "error",
   body |-> [error |-> m_internalServerError, message |-> err.message]]

\* the global error handler installed by Server.setupRoutes
globalErrorHandler(err, env) ==
  [sent |-> TRUE, status |-> 500, kind |-> "error",
   body |-> [error |-> m_internalServerError,
             message |-> IF env = "development" THEN err.message
                         ELSE m_somethingWentWrong]]

\* errorHandler of middleware/errorHandler.ts, which no route or app.use
\* of server.ts installs
errorHandler(err, env, path, method) ==
  LET statusCode == CASE err.name = "ApiError" -> err.statusCode
                      [] err.name = "ValidationError" -> 422
                      [] err.name = "MulterError" -> 400
                      [] OTHER -> 500
      message == IF err.name \in {"ApiError", "ValidationError", "MulterError"}
                 THEN err.message
                 ELSE IF env = "development" THEN err.message
                 ELSE m_InternalServerError
  IN [sent |-> TRUE, status |-> statusCode, kind |-> "error",
      body |-> [error |-> [name |-> IF statusCode = 500 /\ err.name # "ApiError"
                                    THEN "InternalServerError" ELSE err.name,
                           message |-> message,
                           statusCode |-> statusCode, path |-> path,
                           method |-> method]]]

(***************************************************************************)
(* Requests: what a client can send                                        *)
(***************************************************************************)
MaxRequests == 1

s_modelsPath == <<"/", "m", "o", "d", "e", "l", "s">>
s_invokePath == <<"/", "i", "n", "v", "o", "k", "e">>

routePath(route, modelId) ==
  CASE route = "list" -> s_modelsPath
    [] route = "info" -> ConcatAll(<<s_modelsPath, s_slash, modelId>>)
    [] OTHER -> ConcatAll(<<s_modelsPath, s_slash, modelId, s_invokePath>>)

ModelIds == {id_echo, id_ocr, id_ghost}
ApiKeys == {"", "default-key-change-in-production", "wrong-key"}
NodeEnvs == {"development", "production"}

okJpeg == [fieldname |-> s_imageFile, mimetype |-> mime_jpeg, size |-> 2048]
exeFile == [fieldname |-> s_imageFile, mimetype |-> mime_exe, size |-> 2048]
bigJpeg == [fieldname |-> s_imageFile, mimetype |-> mime_jpeg, size |-> fileSizeLimit + 1]

UploadChoices ==
  { <<>>, <<okJpeg>>, <<exeFile>>, <<bigJpeg>>, [i \in 1..(filesLimit + 1) |-> okJpeg] }

JsonBodies ==
  { Obj(<<>>), Obj(<<KV(s_text, Str(s_hi))>>), Obj(<<KV(s_text, Num(5))>>),
    Obj(<<KV(s_imageFile, Str(s_hi))>>) }

\* the text fields of a multipart body are strings
MultipartFields == { Obj(<<KV(s_language, Str(s_en))>>), Obj(<<KV(s_imageFile, Str(s_hi))>>) }

requestInput(route, modelId, apiKey, contentType, fields, uploads) ==
  [route |-> route, modelId |-> modelId, apiKey |-> apiKey, contentType |-> contentType,
   fields |-> fields, uploads |-> uploads]

RequestInputs ==
  { requestInput("list", <<>>, k, "none", Obj(<<>>), <<>>) : k \in ApiKeys }
  \cup { requestInput("info", id, k, "none", Obj(<<>>), <<>>) :
           id \in ModelIds, k \in ApiKeys }
  \cup { requestInput("invoke", id, k, "json", Obj(<<>>), <<>>) :
           id \in ModelIds, k \in {"", "wrong-key"} }
  \cup { requestInput("invoke", id, "default-key-change-in-production", "json", b, <<>>) :
           id \in ModelIds, b \in JsonBodies }
  \cup { requestInput("invoke", id, "default-key-change-in-production", "multipart", f, u) :
           id \in ModelIds, f \in MultipartFields, u \in UploadChoices }

\* the Factory and the Registry a router can be built over: what start-up
\* loading of two plugins leaves, that state after Registry.unregister or
\* Factory.unregister of one ID, and the state with no plugins directory
loadedPair ==
  LET first == registerPlugin(<<>>, <<>>, pluginEchoA.module, "p1")
  IN registerPlugin(first.factory, first.registry, pluginOcr.module, "p3")

Deployments ==
  { [factory |-> loadedPair.factory, registry |-> loadedPair.registry],
    [factory |-> loadedPair.factory,
     registry |-> registryUnregister(loadedPair.registry, id_echo).map],
    [factory |-> factoryUnregister(loadedPair.factory, id_echo).map,
     registry |-> loadedPair.registry],
    [factory |-> <<>>, registry |-> <<>>] }

\* what strategy.process(requestData, context) resolves with
strategyOutput(instance, requestData, context) ==
  [result |-> requestData, model |-> instance.class, user |-> context.userId]

\* what strategy.process rejects with
strategyError == plainError(m_rateLimit)

\* a request as Express hands it to the router: express.json has parsed a
\* JSON body, and has left req.body empty for any other content type
newRequest(in) ==
  [route |-> in.route, modelId |-> in.modelId, apiKey |-> in.apiKey,
   contentType |-> in.contentType, fields |-> in.fields, uploads |-> in.uploads,
   path |-> routePath(in.route, in.modelId),
   pc |-> "apiKeyAuth",
   user |-> noUser,
   body |-> IF in.contentType = "json" THEN in.fields ELSE Obj(<<>>),
   files |-> <<>>, hasFiles |-> FALSE,
   strategy |-> 0, requestData |-> Obj(<<>>),
   context |-> [apiKey |-> "", userId |-> ""],
   settled |-> "no",
   stages |-> <<>>, controller |-> <<>>,
   err |-> noError, forwarded |-> 0, raisedBy |-> "none",
   response |-> noResponse, sends |-> 0]

\* what serving a request has no access to
servingFrame ==
  UNCHANGED <<plugins, pluginPc, loaderPc, failures, lastCall, directCalls, nodeEnv, serverPc, probe>>

pipelineFrame ==
  UNCHANGED <<strategyRegistry, schemaMap, plugins, pluginPc, loaderPc, failures, lastCall,
              directCalls, nodeEnv, serverPc, probe>>

\* the middleware of each route, in the order router.get and router.post list them
listChain == <<"apiKeyAuth", "controller">>
infoChain == <<"apiKeyAuth", "controller">>
invokeChain_validationFirst == <<"apiKeyAuth", "validation", "multer", "controller">>
invokeChain == <<"apiKeyAuth", "multer", "validation", "controller">>

chainOf(route) ==
  CASE route = "list" -> listChain
    [] route = "info" -> infoChain
    [] OTHER -> invokeChain

\* a middleware starts to run for the request
enter(r, stage) == [r EXCEPT !.stages = Append(@, stage)]

\* next(): Express runs the middleware that follows the current one
passOn(r) ==
  LET chain == chainOf(r.route)
      at == CHOOSE k \in 1..Len(chain) : chain[k] = r.pc
  IN [r EXCEPT !.pc = chain[at + 1]]

\* next(err): Express skips to the error-handling middleware
forward(r, err) ==
  [r EXCEPT !.err = err, !.forwarded = @ + 1, !.raisedBy = r.pc, !.pc = "errorBoundary"]

\* res.status(s).json(body)
send(r, status, kind, body) ==
  [r EXCEPT !.response = [sent |-> TRUE, status |-> status, kind |-> kind, body |-> body],
            !.sends = @ + 1]

(***************************************************************************)
(* The routes of createModelRoutes, one action per middleware              *)
(***************************************************************************)
\* a client sends a request; it reaches the first middleware of its route
Arrive(in) ==
  /\ Len(requests) < MaxRequests
  /\ requests' = Append(requests, newRequest(in))
  /\ UNCHANGED instances
  /\ pipelineFrame

\* apiKeyAuth
ApiKeyAuth(i) ==
  /\ requests[i].pc = "apiKeyAuth"
  /\ LET r == enter(requests[i], "apiKeyAuth")
         auth == authenticate(r.apiKey)
     IN requests' =
          [requests EXCEPT ![i] =
             IF auth.threw # noError THEN forward(r, auth.threw)
             ELSE passOn([r EXCEPT !.user = auth.user])]
  /\ UNCHANGED instances
  /\ pipelineFrame

\* the second middleware of POST /models/:modelId/invoke: the middleware
\* createDynamicMulterMiddleware returns, run at once
DynamicMulter(i) ==
  /\ requests[i].pc = "multer"
  /\ LET r == enter(requests[i], "multer")
         middleware == createDynamicMulterMiddleware(schemaMap, r.modelId)
         parseError == multerParse(r.uploads, 1)
     IN requests' =
          [requests EXCEPT ![i] =
             IF middleware = "passthrough" \/ r.contentType # "multipart"
             THEN passOn(r)
             ELSE IF parseError # noError THEN forward(r, parseError)
             ELSE passOn([r EXCEPT !.body = r.fields, !.files = r.uploads,
                                   !.hasFiles = TRUE])]
  /\ UNCHANGED instances
  /\ pipelineFrame

\* a validation middleware that sends the 400 answer and calls next() all the same
DynamicValidation_fallthrough(i) ==
  /\ requests[i].pc = "validation"
  /\ LET r == enter(requests[i], "validation")
         found == getSchema(schemaMap, r.modelId)
         validationResult == validateRequestBody(r.body, found.schema, ajvOptions)
     IN requests' =
          [requests EXCEPT ![i] =
             IF found.threw # noError
             THEN forward(r, notFound(m_noSchema \o r.modelId))
             ELSE IF ~validationResult.isValid
             THEN passOn(send(r, 400, "validation",
                              validationFailureBody(r.path, validationResult.errors)))
             ELSE passOn(r)]
  /\ UNCHANGED instances
  /\ pipelineFrame

\* the middleware createDynamicValidationMiddleware returns
DynamicValidation(i) ==
  /\ requests[i].pc = "validation"
  /\ LET r == enter(requests[i], "validation")
         found == getSchema(schemaMap, r.modelId)
         validationResult == validateRequestBody(r.body, found.schema, ajvOptions)
     IN /\ schemaMap' = found.map
        /\ requests' =
          [requests EXCEPT ![i] =
             IF found.threw # noError
             THEN forward(r, notFound(m_noSchema \o r.modelId))
             ELSE IF ~validationResult.isValid
             THEN [send(r, 400, "validation",
                        validationFailureBody(r.path, validationResult.errors))
                     EXCEPT !.pc = "done"]
             ELSE passOn([r EXCEPT !.body = ajvData(ajvOptions, found.schema, r.body)])]
  /\ UNCHANGED <<instances, strategyRegistry>>
  /\ servingFrame

\* requestData of the model controller: the body, and files when req.files is set
buildRequestData(r) ==
  IF r.hasFiles THEN Obj(mapSet(r.body.o, s_files, [t |-> "files", list |-> r.files]))
  ELSE r.body

\* the invocation controller reaches the points of its code named by states
reach(r, states) == [r EXCEPT !.controller = @ \o states]

\* the controller holds every other invocation back while one strategy call
\* is pending
ModelController_serial(i) ==
  /\ \A j \in 1..Len(requests) : requests[j].pc # "processing"
  /\ requests[i].pc = "controller"
  /\ requests[i].route = "invoke"
  /\ LET r == enter(requests[i], "controller")
         created == factoryCreate(strategyRegistry, instances.heap, r.modelId)
     IN /\ isRegistered(strategyRegistry, r.modelId)
        /\ requests' =
             [requests EXCEPT ![i] =
                [reach(r, <<"Received", "Resolved", "Invoked">>)
                   EXCEPT !.strategy = created.ref,
                          !.requestData = buildRequestData(r),
                          !.context = [apiKey |-> r.user.apiKeyId, userId |-> r.user.apiKeyId],
                          !.pc = "processing"]]
        /\ instances' = [heap |-> created.heap,
                         returned |-> Append(instances.returned, created.ref)]
  /\ pipelineFrame

\* the model controller up to await strategy.process(requestData, context)
ModelController(i) ==
  /\ requests[i].pc = "controller"
  /\ requests[i].route = "invoke"
  /\ LET r == enter(requests[i], "controller")
         created == factoryCreate(strategyRegistry, instances.heap, r.modelId)
     IN IF ~isRegistered(strategyRegistry, r.modelId)
        THEN /\ requests' =
                  [requests EXCEPT ![i] =
                     forward(reach(r, <<"Received", "Failed">>),
                             notFound(ConcatAll(<<m_ModelQ, r.modelId, m_notAvailable>>)))]
             /\ UNCHANGED <<instances, strategyRegistry>>
        ELSE /\ requests' =
                  [requests EXCEPT ![i] =
                     [reach(r, <<"Received", "Resolved", "Invoked">>)
                        EXCEPT !.strategy = created.ref,
                               !.requestData = buildRequestData(r),
                               !.context = [apiKey |-> r.user.apiKeyId,
                                            userId |-> r.user.apiKeyId],
                               !.pc = "processing"]]
             /\ instances' = [heap |-> created.heap,
                              returned |-> Append(instances.returned, created.ref)]
             /\ strategyRegistry' = created.map
  /\ UNCHANGED schemaMap
  /\ servingFrame

\* strategy.process resolves: the controller answers 200
ProcessResolves(i) ==
  /\ requests[i].pc = "processing"
  /\ LET r == requests[i]
         result == strategyOutput(instances.heap[r.strategy], r.requestData, r.context)
     IN requests' =
          [requests EXCEPT ![i] =
             [send(reach(r, <<"Succeeded">>), 200, "success",
                   invokeSuccessBody(r.modelId, result))
                EXCEPT !.settled = "resolved", !.pc = "done"]]
  /\ UNCHANGED instances
  /\ pipelineFrame

\* strategy.process rejects and the controller's catch answers the request
\* itself instead of rethrowing
ProcessRejects_swallowed(i) ==
  /\ requests[i].pc = "processing"
  /\ requests' = [requests EXCEPT ![i] =
                    [send(reach(requests[i], <<"Failed">>), 500, "error",
                          [error |-> strategyError.message])
                       EXCEPT !.settled = "rejected", !.pc = "done"]]
  /\ UNCHANGED instances
  /\ pipelineFrame

\* strategy.process rejects and the controller starts over: it resolves a
\* strategy and calls process() again
ProcessRejects_retry(i) ==
  /\ requests[i].pc = "processing"
  /\ Len(requests[i].controller) < 6
  /\ LET r == requests[i]
         created == factoryCreate(strategyRegistry, instances.heap, r.modelId)
     IN /\ requests' = [requests EXCEPT ![i] =
                          [reach(r, <<"Resolved", "Invoked">>)
                             EXCEPT !.strategy = created.ref]]
        /\ instances' = [heap |-> created.heap,
                         returned |-> Append(instances.returned, created.ref)]
  /\ pipelineFrame

\* a timer gives up on the pending strategy call and an error is handed to
\* next while process() has not settled
ProcessRejects_timeout(i) ==
  /\ requests[i].pc = "processing"
  /\ requests' = [requests EXCEPT ![i] =
                    forward(reach(requests[i], <<"Failed">>), strategyError)]
  /\ UNCHANGED instances
  /\ pipelineFrame

\* strategy.process rejects: the controller's catch rethrows, asyncHandler
\* hands the error to next
ProcessRejects(i) ==
  /\ requests[i].pc = "processing"
  /\ requests' = [requests EXCEPT ![i] =
                    [forward(reach(requests[i], <<"Failed">>), strategyError)
                       EXCEPT !.settled = "rejected"]]
  /\ UNCHANGED instances
  /\ pipelineFrame

\* GET /models/:modelId
ModelInfoController(i) ==
  /\ requests[i].pc = "controller"
  /\ requests[i].route = "info"
  /\ LET r == enter(requests[i], "controller")
     IN requests' =
          [requests EXCEPT ![i] =
             IF ~isRegistered(strategyRegistry, r.modelId)
             THEN forward(r, notFound(ConcatAll(<<m_ModelQ, r.modelId, m_notAvailable>>)))
             ELSE [send(r, 200, "success", modelInfoBody(r.modelId)) EXCEPT !.pc = "done"]]
  /\ UNCHANGED instances
  /\ pipelineFrame

\* GET /models
ModelListController(i) ==
  /\ requests[i].pc = "controller"
  /\ requests[i].route = "list"
  /\ requests' =
       [requests EXCEPT ![i] =
          [send(enter(requests[i], "controller"), 200, "success",
                modelListBody(getRegisteredModels(strategyRegistry)))
             EXCEPT !.pc = "done"]]
  /\ UNCHANGED instances
  /\ pipelineFrame

\* the error-handling middleware Express reaches after next(err): the
\* global error handler of Server.setupRoutes
GlobalErrorHandler(i) ==
  /\ requests[i].pc = "errorBoundary"
  /\ LET r == enter(requests[i], "errorHandler")
         answer == globalErrorHandler(r.err, nodeEnv)
     IN requests' =
          [requests EXCEPT ![i] =
             [send(r, answer.status, answer.kind, answer.body) EXCEPT !.pc = "done"]]
  /\ UNCHANGED instances
  /\ pipelineFrame

Init ==
  /\ \E d \in Deployments : strategyRegistry = d.factory /\ schemaMap = d.registry
  /\ pluginPc = [d \in PluginDirs |-> "pending"]
  /\ loaderPc = "done"
  /\ failures = <<>>
  /\ lastCall = noCall
  /\ directCalls = <<>>
  /\ instances = [heap |-> <<>>, returned |-> <<>>]
  /\ plugins = [access |-> "ok", readdir |-> "ok",
                dirs |-> [p1 |-> pluginEchoA, p2 |-> pluginNoEntry, p3 |-> pluginOcr]]
  /\ requests = <<>>
  /\ nodeEnv \in NodeEnvs
  /\ probe = probeOff
  /\ serverPc = "listening"

Next ==
  \/ \E in \in RequestInputs : Arrive(in)
  \/ \E i \in 1..Len(requests) : ApiKeyAuth(i)
  \/ \E i \in 1..Len(requests) : DynamicMulter(i)
  \/ \E i \in 1..Len(requests) : DynamicValidation(i)
  \/ \E i \in 1..Len(requests) : ModelController(i)
  \/ \E i \in 1..Len(requests) : ProcessResolves(i)
  \/ \E i \in 1..Len(requests) : ProcessRejects(i)
  \/ \E i \in 1..Len(requests) : ModelInfoController(i)
  \/ \E i \in 1..Len(requests) : ModelListController(i)
  \/ \E i \in 1..Len(requests) : GlobalErrorHandler(i)

Spec == Init /\ [][Next]_vars

(***************************************************************************)
(* Several invocations in flight at once                                   *)
(***************************************************************************)
MaxInFlight == 2

ConcurrentInputs ==
  { requestInput("invoke", id, "default-key-change-in-production", "json", b, <<>>) :
      id \in {id_echo, id_ocr},
      b \in { Obj(<<KV(s_text, Str(s_hi))>>), Obj(<<KV(s_imageFile, Str(s_hi))>>) } }

\* a client sends an invocation while others are in flight
ArriveConcurrent(in) ==
  /\ Len(requests) < MaxInFlight
  /\ requests' = Append(requests, newRequest(in))
  /\ UNCHANGED instances
  /\ pipelineFrame

InitConcurrent ==
  /\ strategyRegistry = loadedPair.factory
  /\ schemaMap = loadedPair.registry
  /\ pluginPc = [d \in PluginDirs |-> "pending"]
  /\ loaderPc = "done"
  /\ failures = <<>>
  /\ lastCall = noCall
  /\ directCalls = <<>>
  /\ instances = [heap |-> <<>>, returned |-> <<>>]
  /\ plugins = [access |-> "ok", readdir |-> "ok",
                dirs |-> [p1 |-> pluginEchoA, p2 |-> pluginNoEntry, p3 |-> pluginOcr]]
  /\ requests = <<>>
  /\ nodeEnv \in NodeEnvs
  /\ probe = probeOff
  /\ serverPc = "listening"

NextConcurrent ==
  \/ \E in \in ConcurrentInputs : ArriveConcurrent(in)
  \/ \E i \in 1..Len(requests) : ApiKeyAuth(i)
  \/ \E i \in 1..Len(requests) : DynamicMulter(i)
  \/ \E i \in 1..Len(requests) : DynamicValidation(i)
  \/ \E i \in 1..Len(requests) : ModelController(i)
  \/ \E i \in 1..Len(requests) : ProcessResolves(i)
  \/ \E i \in 1..Len(requests) : ProcessRejects(i)
  \/ \E i \in 1..Len(requests) : GlobalErrorHandler(i)

SpecConcurrent == InitConcurrent /\ [][NextConcurrent]_vars

(***************************************************************************)
(* Server.start: initialize() awaits loadPlugins, then app.listen          *)
(***************************************************************************)
\* what the plugins directory holds when the process starts
ServerPluginChoices ==
  [p1 |-> {pluginEchoA}, p2 |-> {pluginEchoB, pluginNoEntry},
   p3 |-> {pluginOcr, pluginImportRejects}]

\* the requests clients send to the process
ServerInputs ==
  { requestInput("list", <<>>, "default-key-change-in-production", "none", Obj(<<>>), <<>>),
    requestInput("info", id_ocr, "default-key-change-in-production", "none", Obj(<<>>), <<>>),
    requestInput("invoke", id_echo, "wrong-key", "json", Obj(<<>>), <<>>),
    requestInput("invoke", id_echo, "default-key-change-in-production", "json",
                 Obj(<<KV(s_text, Str(s_hi))>>), <<>>) }

\* app.listen called without awaiting initialize()
Listen_early ==
  /\ serverPc = "starting"
  /\ serverPc' = "listening"
  /\ UNCHANGED <<strategyRegistry, schemaMap, plugins, pluginPc, loaderPc, failures, lastCall,
                 directCalls, instances, requests, nodeEnv, probe>>

\* start(): initialize() has resolved, this.app.listen(this.port, ...)
Listen ==
  /\ serverPc = "starting"
  /\ loaderPc = "done"
  /\ serverPc' = "listening"
  /\ UNCHANGED <<strategyRegistry, schemaMap, plugins, pluginPc, loaderPc, failures, lastCall,
                 directCalls, instances, requests, nodeEnv, probe>>

\* start(): initialize() has rethrown what loadPlugins threw; the catch logs
\* and calls process.exit(1)
ExitOnFailure ==
  /\ serverPc = "starting"
  /\ loaderPc = "threw"
  /\ serverPc' = "exit1"
  /\ UNCHANGED <<strategyRegistry, schemaMap, plugins, pluginPc, loaderPc, failures, lastCall,
                 directCalls, instances, requests, nodeEnv, probe>>

\* a connection is accepted: only a listening socket takes requests
Accept(in) ==
  /\ serverPc = "listening"
  /\ Arrive(in)
  /\ UNCHANGED serverPc

InitServer ==
  /\ RegistryIdle
  /\ \E fs \in PluginsDirStates :
       \E p1 \in ServerPluginChoices.p1, p2 \in ServerPluginChoices.p2,
          p3 \in ServerPluginChoices.p3 :
         plugins = [access |-> fs.access, readdir |-> fs.readdir,
                    dirs |-> [p1 |-> p1, p2 |-> p2, p3 |-> p3]]
  /\ requests = <<>>
  /\ nodeEnv = "production"
  /\ probe = probeOff
  /\ serverPc = "starting"

NextServer ==
  \/ StartLoad
  \/ \E d \in PluginDirs : LocateEntry(d)
  \/ \E d \in PluginDirs : ImportAndRegister(d)
  \/ FinishLoad
  \/ Listen
  \/ ExitOnFailure
  \/ \E in \in ServerInputs : Accept(in)
  \/ \E i \in 1..Len(requests) : ApiKeyAuth(i)
  \/ \E i \in 1..Len(requests) : DynamicMulter(i)
  \/ \E i \in 1..Len(requests) : DynamicValidation(i)
  \/ \E i \in 1..Len(requests) : ModelController(i)
  \/ \E i \in 1..Len(requests) : ProcessResolves(i)
  \/ \E i \in 1..Len(requests) : ProcessRejects(i)
  \/ \E i \in 1..Len(requests) : ModelInfoController(i)
  \/ \E i \in 1..Len(requests) : ModelListController(i)
  \/ \E i \in 1..Len(requests) : GlobalErrorHandler(i)

\* the catch of start() runs as soon as initialize() has rejected
SpecServer == InitServer /\ [][NextServer]_vars /\ WF_vars(ExitOnFailure)

\* Invocations in flight together, with their scheduling: Node runs every
\* middleware that is ready (runs), and every strategy.process call is taken
\* to settle, by resolving or by rejecting (settles).
runs ==
  \E i \in 1..Len(requests) :
    \/ ApiKeyAuth(i)
    \/ DynamicMulter(i)
    \/ DynamicValidation(i)
    \/ ModelController(i)
    \/ ModelInfoController(i)
    \/ ModelListController(i)
    \/ GlobalErrorHandler(i)

settles == \E i \in 1..Len(requests) : ProcessResolves(i) \/ ProcessRejects(i)

\* the invocations sent: one that reaches its strategy, one that is refused
\* by validation
SettlingInputs ==
  { requestInput("invoke", id_echo, "default-key-change-in-production", "json", b, <<>>) :
      b \in { Obj(<<KV(s_text, Str(s_hi))>>), Obj(<<KV(s_imageFile, Str(s_hi))>>) } }

NextSettling ==
  \/ \E in \in SettlingInputs : ArriveConcurrent(in)
  \/ \E i \in 1..Len(requests) : ApiKeyAuth(i)
  \/ \E i \in 1..Len(requests) : DynamicMulter(i)
  \/ \E i \in 1..Len(requests) : DynamicValidation(i)
  \/ \E i \in 1..Len(requests) : ModelController(i)
  \/ \E i \in 1..Len(requests) : ProcessResolves(i)
  \/ \E i \in 1..Len(requests) : ProcessRejects(i)
  \/ \E i \in 1..Len(requests) : GlobalErrorHandler(i)

SpecSettling ==
  InitConcurrent /\ [][NextSettling]_vars /\ WF_vars(runs) /\ WF_vars(settles)

\* The same scheduling without the assumption that strategy calls settle
SpecPending == InitConcurrent /\ [][NextSettling]_vars /\ WF_vars(runs)

(***************************************************************************)
(* Properties of the validator and of the file check (SpecProbe)           *)
(***************************************************************************)
\* The schema rules a value violates, read off the meaning of each keyword:
\* a set of [keyword, at, param], at being the JSON pointer of the value.
RECURSIVE ViolatedRules(_, _, _)
ViolatedRules(schema, data, at) ==
  LET has(k) == k \in DOMAIN schema
      rule(keyword, param) == [keyword |-> keyword, at |-> at, param |-> param]
      isObj == data.t = "object"
      props == IF has("properties") THEN schema.properties ELSE <<>>
  IN (IF has("type") /\ data.t # schema.type THEN {rule("type", <<>>)} ELSE {})
     \cup (IF has("enum") /\ data \notin {schema.enum[i] : i \in 1..Len(schema.enum)}
           THEN {rule("enum", <<>>)} ELSE {})
     \cup (IF has("minimum") /\ data.t = "number" /\ data.n < schema.minimum
           THEN {rule("minimum", <<>>)} ELSE {})
     \cup (IF has("maximum") /\ data.t = "number" /\ data.n > schema.maximum
           THEN {rule("maximum", <<>>)} ELSE {})
     \cup (IF has("minLength") /\ data.t = "string" /\ Len(data.s) < schema.minLength
           THEN {rule("minLength", <<>>)} ELSE {})
     \cup (IF has("maxLength") /\ data.t = "string" /\ Len(data.s) > schema.maxLength
           THEN {rule("maxLength", <<>>)} ELSE {})
     \cup (IF has("required") /\ isObj
           THEN {rule("required", schema.required[i]) :
                   i \in {j \in 1..Len(schema.required) : ~hasKey(data, schema.required[j])}}
           ELSE {})
     \cup (IF has("additionalProperties") /\ schema.additionalProperties = FALSE /\ isObj
           THEN {rule("additionalProperties", data.o[i].k) :
                   i \in {j \in 1..Len(data.o) :
                            \A q \in 1..Len(props) : props[q].k # data.o[j].k}}
           ELSE {})
     \cup (IF isObj
           THEN UNION {ViolatedRules(props[i].v, getKey(data, props[i].k),
                                     at \o s_slash \o props[i].k) :
                         i \in {j \in 1..Len(props) : hasKey(data, props[j].k)}}
           ELSE {})
     \cup (IF has("items") /\ data.t = "array"
           THEN UNION {ViolatedRules(schema.items, data.a[i],
                                     at \o s_slash \o natToString(i - 1)) :
                         i \in 1..Len(data.a)}
           ELSE {})

\* the value found at a JSON pointer's end is the value a detail carries
detailNames(detail, r) ==
  /\ includes(detail.message,
              IF r.keyword = "required" THEN r.param
              ELSE IF Len(r.at) = 0 THEN s_root ELSE Tail(r.at))
  /\ r.keyword = "required" => includes(detail.message, m_isRequired)
  /\ r.keyword = "type" => includes(detail.message, m_mustBeType)
  /\ r.keyword = "enum" => includes(detail.message, m_oneOf)
  /\ r.keyword = "minimum" => includes(detail.message, m_atLeast) /\ ~includes(detail.message, m_charsLong)
  /\ r.keyword = "maximum" => includes(detail.message, m_atMost) /\ ~includes(detail.message, m_charsLong)
  /\ r.keyword = "minLength" => includes(detail.message, m_atLeast) /\ includes(detail.message, m_charsLong)
  /\ r.keyword = "maxLength" => includes(detail.message, m_atMost) /\ includes(detail.message, m_charsLong)
  /\ r.keyword = "additionalProperties" => includes(detail.message, m_additional)

\* C3: validation is complete: the details returned for a body are as many as
\* the schema rules the body violates, and every violated rule has a detail
\* that names it; a body that violates no rule is valid.
ValidationComplete ==
  probe.validated =>
    LET rules == ViolatedRules(probe.schema, probe.body, <<>>)
        details == probe.validation.errors
    IN /\ Len(details) = Cardinality(rules)
       /\ \A r \in rules : \E i \in 1..Len(details) : detailNames(details[i], r)
       /\ probe.validation.isValid = (rules = {})

abExample ==
  abSchema([type |-> "string"], [type |-> "number", minimum |-> 1], <<s_a, s_b>>, TRUE)

\* C3 witness: schema a:string, b:number(min 1), both required, body {a: 5}:
\* two details, the missing b and the type of a.
ValidationCompleteWitness ==
  /\ probe.validated
  /\ probe.schema = abExample
  /\ probe.body = Obj(<<KV(s_a, Num(5))>>)
  /\ Len(probe.validation.errors) = 2
  /\ \E i, j \in 1..2 :
       /\ probe.validation.errors[i].message = m_Field \o s_b \o m_isRequired
       /\ probe.validation.errors[j].message = m_Field \o s_a \o m_mustBeType \o s_string

\* C4: for a schema with a top-level required property p and a body that
\* omits p, the detail reported for the omission has field p and message
\* "Field 'p' is required".
RequiredDetailNamesField ==
  (probe.validated /\ "required" \in DOMAIN probe.schema) =>
    \A i \in 1..Len(probe.schema.required) :
      LET p == probe.schema.required[i]
      IN ~hasKey(probe.body, p) =>
           \E j \in 1..Len(probe.validation.errors) :
             /\ probe.validation.errors[j].field = p
             /\ probe.validation.errors[j].message = m_Field \o p \o m_isRequired

\* the names the file check walks over: property names and required-field
\* names, under properties, items, anyOf, oneOf and allOf
RECURSIVE walkedNames(_)
walkedNames(node) ==
  LET sub(k) == IF k \in DOMAIN node THEN {node[k][i] : i \in 1..Len(node[k])} ELSE {}
      props == sub("properties")
      below == {e.v : e \in props} \cup sub("anyOf") \cup sub("oneOf") \cup sub("allOf")
                 \cup (IF "items" \in DOMAIN node THEN {node.items} ELSE {})
  IN {e.k : e \in props} \cup sub("required") \cup UNION {walkedNames(n) : n \in below}

FileTokens == {s_file, s_files, s_upload, s_image, s_document}

\* name contains token, letters compared without regard to case
containsIgnoringCase(name, token) ==
  \E off \in 0..(Len(name) - Len(token)) :
    \A j \in 1..Len(token) : lowerChar(name[off + j]) = lowerChar(token[j])

\* C9: the file check answers true exactly when a walked property name or
\* required-field name contains one of the tokens, case-insensitively; a
\* required imageFile triggers it and a schema with only prompt does not.
MultipartGateCorrect ==
  probe.gated =>
    /\ probe.multipart =
         (\E n \in walkedNames(probe.schema), tok \in FileTokens : containsIgnoringCase(n, tok))
    /\ (probe.schema = gateSchema("required", s_imageFile) => probe.multipart)
    /\ (probe.schema = gateSchema("property", s_prompt) => ~probe.multipart)

\* C9 witness: the token is found only by lowering the case of a nested name
MultipartGateWitness ==
  /\ probe.gated
  /\ probe.schema = gateSchema("items", s_Document)
  /\ probe.multipart

(***************************************************************************)
(* Properties of registration and loading (SpecRegistry)                   *)
(***************************************************************************)
duplicateError(err) ==
  /\ err.name = "Error"
  /\ err.what \in {"strategy already registered", "schema already registered"}

\* C5: register(id, x) on an id that is already present throws the
\* duplicate-registration error and leaves the map as it was, in the Factory
\* and in the Registry, so the first registration stays the stored one.
RegistrationUniqueness ==
  [][ /\ ( /\ directCalls' # directCalls
           /\ lastCall'.op = "Factory.register"
           /\ mapHas(strategyRegistry, lastCall'.id) )
         => ( /\ duplicateError(lastCall'.threw)
              /\ strategyRegistry' = strategyRegistry
              /\ mapGet(strategyRegistry', lastCall'.id)
                   = mapGet(strategyRegistry, lastCall'.id) )
      /\ ( /\ directCalls' # directCalls
           /\ lastCall'.op = "Registry.register"
           /\ mapHas(schemaMap, lastCall'.id) )
         => ( /\ duplicateError(lastCall'.threw)
              /\ schemaMap' = schemaMap
              /\ mapGet(schemaMap', lastCall'.id) = mapGet(schemaMap, lastCall'.id) )
    ]_vars

\* C5 witness: echo was registered by its plugin, a later register(echo, stub)
\* was refused, and create(echo) would still use the plugin's class.
RegistrationUniquenessWitness ==
  /\ lastCall.op = "Factory.register"
  /\ lastCall.id = id_echo
  /\ duplicateError(lastCall.threw)
  /\ pluginPc["p1"] = "loaded"
  /\ mapGet(strategyRegistry, id_echo) = [class |-> "EchoStrategy"]
  /\ mapGet(schemaMap, id_echo) = echoSchema

\* a step in which a registration attempt fails: a register call that throws,
\* or a plugin whose loading ends in failure
FailedRegistrationAttempt ==
  \/ /\ directCalls' # directCalls
     /\ lastCall'.op \in {"Factory.register", "Registry.register"}
     /\ lastCall'.threw # noError
  \/ \E d \in PluginDirs : pluginPc[d] # "failed" /\ pluginPc'[d] = "failed"

\* C6: the list of model IDs that GET /models returns is the same after a
\* failed registration attempt as before it.
IdempotentListing ==
  [][ FailedRegistrationAttempt
        => getRegisteredModels(strategyRegistry') = getRegisteredModels(strategyRegistry) ]_vars

\* what makes a candidate fail whatever the other candidates do
malformed(c) ==
  \/ c.entry = "none"
  \/ c.import = "rejects"
  \/ \E e \in {"modelId", "configSchema", "ModelStrategy"} : e \notin DOMAIN c.module
  \/ c.module.modelId.t # "string"
  \/ c.module.configSchema.t # "object"
  \/ c.module.ModelStrategy.t # "function"

failuresOf(d) == {i \in 1..Len(failures) : failures[i].plugin = d}

\* C8: loadPlugins does not throw because candidates fail; a candidate that
\* does not fail is registered in the Factory and in the Registry; a well-formed
\* candidate fails only when its ID is already taken; each failing candidate is
\* reported exactly once, and a report about missing exports names all of them.
LoaderFaultIsolation ==
  /\ loaderPc = "threw" => plugins.readdir = "error"
  /\ \A d \in PluginDirs :
       LET c == plugins.dirs[d]
       IN /\ Cardinality(failuresOf(d)) = (IF pluginPc[d] = "failed" THEN 1 ELSE 0)
          /\ malformed(c) => pluginPc[d] # "loaded"
          /\ (pluginPc[d] = "loaded" /\ directCalls = <<>>) =>
               /\ mapHas(strategyRegistry, c.module.modelId.s)
               /\ mapHas(schemaMap, c.module.modelId.s)
          /\ (pluginPc[d] = "failed" /\ ~malformed(c) /\ directCalls = <<>>) =>
               \E d2 \in PluginDirs \ {d} :
                 /\ pluginPc[d2] = "loaded"
                 /\ plugins.dirs[d2].module.modelId = c.module.modelId
          /\ \A i \in failuresOf(d) :
               (c.entry # "none" /\ c.import = "ok"
                  /\ \E e \in {"modelId", "configSchema", "ModelStrategy"} :
                       e \notin DOMAIN c.module)
               => /\ failures[i].error.what = "missing required exports"
                  /\ {failures[i].error.missing[j] : j \in 1..Len(failures[i].error.missing)}
                       = {"modelId", "configSchema", "ModelStrategy"} \ DOMAIN c.module

\* C8 witness: of three candidates the second lacks two exports; loading is
\* over, the other two are registered in both maps and one failure is logged.
LoaderFaultIsolationWitness ==
  /\ loaderPc = "done"
  /\ directCalls = <<>>
  /\ plugins.dirs["p1"] = pluginMissingTwo
  /\ plugins.dirs["p2"] = pluginEchoB
  /\ plugins.dirs["p3"] = pluginOcr
  /\ Len(failures) = 1
  /\ failures[1].plugin = "p1"
  /\ failures[1].error.missing = <<"modelId", "ModelStrategy">>
  /\ keySet(strategyRegistry) = {id_echo, id_ocr}
  /\ keySet(schemaMap) = {id_echo, id_ocr}

\* C10: every model ID registered in the Factory has an entry in the
\* Registry, in every reachable state.
PairingInvariant == keySet(strategyRegistry) \subseteq keySet(schemaMap)

\* the calls that cannot take an ID out of the Registry or put one into the
\* Factory alone
pairingKeepingCalls == {"Registry.register", "Factory.unregister"}

\* C10 amended: as long as no Factory.register, Registry.unregister or
\* Registry.clear call has been made directly, every model ID registered in
\* the Factory has an entry in the Registry.
PairingUnderLoading ==
  (\A i \in 1..Len(directCalls) : directCalls[i] \in pairingKeepingCalls)
    => keySet(strategyRegistry) \subseteq keySet(schemaMap)

\* C10 witness: plugins were loaded, a schema was registered directly and a
\* strategy unregistered, and the Factory's IDs are a proper part of the Registry's.
PairingUnderLoadingWitness ==
  /\ loaderPc = "done"
  /\ Len(directCalls) = 2
  /\ \A i \in 1..Len(directCalls) : directCalls[i] \in pairingKeepingCalls
  /\ strategyRegistry # <<>>
  /\ keySet(strategyRegistry) # keySet(schemaMap)

(***************************************************************************)
(* Properties of create (SpecFactory)                                      *)
(***************************************************************************)
\* C7: create(modelId) runs the stored creator and returns an instance that
\* no earlier call returned, in its constructor's state; creating it changes
\* no other instance, and a write to one instance changes no other.
FactoryIsolation ==
  [][ /\ (lastCall'.op = "Factory.create" /\ instances'.returned # instances.returned) =>
           LET ref == lastCall'.ref
           IN /\ \A k \in 1..Len(instances.returned) : instances.returned[k] # ref
              /\ instances'.returned = Append(instances.returned, ref)
              /\ instances'.heap[ref].state = 0
              /\ instances'.heap[ref].class = mapGet(strategyRegistry, lastCall'.id).class
              /\ \A r \in 1..Len(instances.heap) : instances'.heap[r] = instances.heap[r]
      /\ (lastCall'.op = "mutate" /\ instances' # instances) =>
           \A k \in 1..Len(instances.returned) :
             instances.returned[k] # lastCall'.ref =>
               instances'.heap[instances.returned[k]] = instances.heap[instances.returned[k]]
    ]_vars

\* C7 witness: three create(echo) calls returned three instances; the first
\* was written to, and the ones created before and after the write are untouched.
FactoryIsolationWitness ==
  /\ Len(instances.returned) = 3
  /\ \A k \in 1..3 : instances.heap[instances.returned[k]].modelId = id_echo
  /\ Cardinality({instances.returned[k] : k \in 1..3}) = 3
  /\ instances.heap[instances.returned[1]].state = 1
  /\ instances.heap[instances.returned[2]].state = 0
  /\ instances.heap[instances.returned[3]].state = 0
  /\ lastCall.op = "Factory.create"

(***************************************************************************)
(* Properties of the request pipeline (Spec)                               *)
(***************************************************************************)
successEnvelope(body) ==
  /\ "success" \in DOMAIN body
  /\ body.success = TRUE
  /\ "data" \in DOMAIN body
  /\ "error" \notin DOMAIN body

failureEnvelope(body) ==
  /\ ~("success" \in DOMAIN body /\ body.success = TRUE)
  /\ "data" \notin DOMAIN body
  /\ "error" \in DOMAIN body

\* C1: every answer to POST /models/:modelId/invoke is an envelope of one
\* of two shapes. When strategy.process resolved, success is true, data is
\* present and error is absent; in every other case (authentication,
\* upload, validation failure, unknown model, strategy throw) success is
\* not true, data is absent and error is present. No answer carries both
\* data and error, or neither. The same holds of what errorHandler of
\* middleware/errorHandler.ts would answer for an error that is on its way.
EnvelopeInvariant ==
  \A i \in 1..Len(requests) :
    LET r == requests[i]
    IN /\ (r.route = "invoke" /\ r.response.sent) =>
            /\ (r.settled = "resolved") => successEnvelope(r.response.body)
            /\ (r.settled # "resolved") => failureEnvelope(r.response.body)
            /\ ("data" \in DOMAIN r.response.body) # ("error" \in DOMAIN r.response.body)
       /\ (r.route = "invoke" /\ r.pc = "errorBoundary") =>
            failureEnvelope(errorHandler(r.err, nodeEnv, r.path, "POST").body)

\* one invocation has been answered after strategy.process resolved
EnvelopeInvariantWitness ==
  \E i \in 1..Len(requests) :
    /\ requests[i].route = "invoke"
    /\ requests[i].response.sent
    /\ requests[i].settled = "resolved"
    /\ requests[i].response.status = 200

unknownEverywhere(modelId) ==
  ~isRegistered(strategyRegistry, modelId) /\ ~hasSchema(schemaMap, modelId)

\* C2: a request GET /models/:modelId or POST /models/:modelId/invoke that
\* carries a valid API key and names a model ID registered in neither the
\* Factory nor the Registry is answered with status 404 and a message that
\* contains the model ID.
UnknownModelAnswers404 ==
  \A i \in 1..Len(requests) :
    LET r == requests[i]
    IN (/\ r.route \in {"info", "invoke"}
        /\ validateApiKey(r.apiKey).isValid
        /\ unknownEverywhere(r.modelId)
        /\ r.response.sent)
       => /\ r.response.status = 404
          /\ "message" \in DOMAIN r.response.body
          /\ includes(r.response.body.message, r.modelId)

\* C11: when strategy.process rejects, the controller sends nothing itself:
\* the error it caught is handed to next exactly once, by the controller,
\* and the request is answered once, by the error handler, with status 500
\* and the "Internal server error" envelope (error present, data absent).
StrategyFailurePropagates ==
  \A i \in 1..Len(requests) :
    LET r == requests[i]
    IN (r.settled = "rejected") =>
         /\ r.forwarded = 1
         /\ r.err = strategyError
         /\ r.raisedBy = "processing"
         /\ r.pc \in {"errorBoundary", "done"}
         /\ (r.pc = "errorBoundary") => (~r.response.sent /\ r.sends = 0)
         /\ (r.pc = "done") =>
              /\ r.sends = 1
              /\ r.response.status = 500
              /\ r.response.kind = "error"
              /\ failureEnvelope(r.response.body)
              /\ r.response.body.error = m_internalServerError

\* a request whose strategy rejected has been answered
StrategyFailurePropagatesWitness ==
  \E i \in 1..Len(requests) :
    /\ requests[i].settled = "rejected"
    /\ requests[i].pc = "done"
    /\ requests[i].response.status = 500

\* C12: the answer to a request whose strategy rejected carries the message
\* of the error the strategy threw, whatever NODE_ENV is.
StrategyMessageSurfaced ==
  \A i \in 1..Len(requests) :
    LET r == requests[i]
    IN (r.settled = "rejected" /\ r.response.sent) =>
         /\ "message" \in DOMAIN r.response.body
         /\ r.response.body.message = strategyError.message

\* C12 as the code has it: the answer to a request whose strategy rejected
\* carries the strategy's own message only when NODE_ENV is "development";
\* in every other environment the message is the generic text "Something
\* went wrong", and errorHandler of middleware/errorHandler.ts would likewise
\* replace it by "Internal Server Error".
StrategyMessageMaskedUnlessDevelopment ==
  \A i \in 1..Len(requests) :
    LET r == requests[i]
    IN /\ (r.settled = "rejected" /\ r.response.sent) =>
            r.response.body.message = IF nodeEnv = "development" THEN strategyError.message
                                      ELSE m_somethingWentWrong
       /\ (r.settled = "rejected") =>
            errorHandler(r.err, nodeEnv, r.path, "POST").body.error.message
              = IF nodeEnv = "development" THEN strategyError.message
                ELSE m_InternalServerError

\* outside development, a request whose strategy rejected has been answered
StrategyMessageMaskedWitness ==
  \E i \in 1..Len(requests) :
    /\ nodeEnv = "production"
    /\ requests[i].settled = "rejected"
    /\ requests[i].response.sent
    /\ requests[i].response.body.message = m_somethingWentWrong

\* the middleware named stage has started to run for request r
ran(r, stage) == \E k \in 1..Len(r.stages) : r.stages[k] = stage

oneAllowedFile(uploads, name) ==
  /\ Len(uploads) = 1
  /\ uploads[1].fieldname = name
  /\ \E k \in 1..Len(allowedTypes) : allowedTypes[k] = uploads[1].mimetype
  /\ uploads[1].size <= fileSizeLimit

\* C14: an authenticated multipart request to google-vision-ocr (registered
\* in the Factory and in the Registry) that carries one file of an allowed
\* MIME type under imageFile and the text field language=en, and whose
\* strategy does not throw, is answered 200 with a success envelope, the
\* strategy having received the uploaded file in its input.
OcrMultipartSucceeds ==
  \A i \in 1..Len(requests) :
    LET r == requests[i]
    IN (/\ r.route = "invoke"
        /\ r.modelId = id_ocr
        /\ isRegistered(strategyRegistry, id_ocr)
        /\ hasSchema(schemaMap, id_ocr)
        /\ validateApiKey(r.apiKey).isValid
        /\ r.contentType = "multipart"
        /\ oneAllowedFile(r.uploads, s_imageFile)
        /\ r.fields = Obj(<<KV(s_language, Str(s_en))>>)
        /\ r.pc = "done"
        /\ r.settled # "rejected")
       => /\ r.response.status = 200
          /\ successEnvelope(r.response.body)
          /\ hasKey(r.requestData, s_files)

\* C16: GET /models answers with one descriptor per model ID registered in
\* the Factory, in the Factory's order, and total equal to their number,
\* whatever the Registry holds; GET /models/:modelId answers 200 with the
\* descriptor of modelId when the Factory holds it and 404 when it does not.
ListingMatchesFactory ==
  \A i \in 1..Len(requests) :
    LET r == requests[i]
        registered == getRegisteredModels(strategyRegistry)
    IN (validateApiKey(r.apiKey).isValid /\ r.pc = "done") =>
         /\ (r.route = "list") =>
              /\ r.response.status = 200
              /\ r.response.body.data.total = Len(registered)
              /\ Len(r.response.body.data.models) = Len(registered)
              /\ \A k \in 1..Len(registered) :
                   r.response.body.data.models[k].modelId = registered[k]
         /\ (r.route = "info" /\ isRegistered(strategyRegistry, r.modelId)) =>
              /\ r.response.status = 200
              /\ r.response.body.data.modelId = r.modelId
         /\ (r.route = "info" /\ ~isRegistered(strategyRegistry, r.modelId)) =>
              r.response.status = 404

\* C17: process() is called only for a request apiKeyAuth accepted, with a
\* ProcessContext whose apiKey and userId are the apiKeyId attached to that
\* request; a request whose key is missing or invalid is answered 401 and
\* no middleware after apiKeyAuth runs for it.
AuthGatesProcess ==
  \A i \in 1..Len(requests) :
    LET r == requests[i]
    IN /\ (r.strategy # 0) =>
            /\ validateApiKey(r.apiKey).isValid
            /\ r.user.authenticated
            /\ r.context.apiKey = validateApiKey(r.apiKey).keyId
            /\ r.context.userId = validateApiKey(r.apiKey).keyId
       /\ (~validateApiKey(r.apiKey).isValid) =>
            /\ ~ran(r, "multer") /\ ~ran(r, "validation") /\ ~ran(r, "controller")
            /\ r.strategy = 0
            /\ r.response.sent => (r.response.status = 401)

isPrefix(a, b) == Len(a) <= Len(b) /\ \A k \in 1..Len(a) : a[k] = b[k]

\* the middleware of the route that have run, the error handler left out
routeStages(r) == SelectSeq(r.stages, LAMBDA st : st # "errorHandler")

\* req.body and req.files as the gate leaves them for the request
materialised(r) ==
  IF createDynamicMulterMiddleware(schemaMap, r.modelId) = "upload.any"
     /\ r.contentType = "multipart"
  THEN [body |-> r.fields, files |-> r.uploads, hasFiles |-> TRUE]
  ELSE [body |-> IF r.contentType = "json" THEN r.fields ELSE Obj(<<>>),
        files |-> <<>>, hasFiles |-> FALSE]

\* C18: for every invocation the middleware run in the order apiKeyAuth,
\* multer gate, validation, controller, each at most once and none unless
\* the one before it called next(): the gate runs only for an authenticated
\* request, validation sees the body and files the gate has finished
\* producing, a strategy is created only after validation has accepted the
\* body, and once a middleware has answered or has forwarded an error no
\* later middleware of the route runs.
StagesInOrder ==
  \A i \in 1..Len(requests) :
    LET r == requests[i]
        run == routeStages(r)
    IN (r.route = "invoke") =>
         /\ isPrefix(run, <<"apiKeyAuth", "multer", "validation", "controller">>)
         /\ ran(r, "errorHandler") =>
              (r.stages[Len(r.stages)] = "errorHandler" /\ r.forwarded = 1)
         /\ ran(r, "multer") => r.user.authenticated
         /\ ran(r, "validation") =>
              /\ r.body = materialised(r).body
              /\ r.files = materialised(r).files
              /\ r.hasFiles = materialised(r).hasFiles
         /\ ran(r, "controller") =>
              validateRequestBody(r.body, getSchema(schemaMap, r.modelId).schema,
                                  ajvOptions).isValid
         /\ (r.strategy # 0) => ran(r, "validation")
         /\ (r.raisedBy \in {"apiKeyAuth", "multer", "validation"}) =>
              run[Len(run)] = r.raisedBy
         /\ (r.response.kind = "validation") => run[Len(run)] = "validation"

\* an invocation has gone through all four middleware and its strategy runs
StagesInOrderWitness ==
  \E i \in 1..Len(requests) :
    /\ requests[i].route = "invoke"
    /\ requests[i].stages = <<"apiKeyAuth", "multer", "validation", "controller">>
    /\ requests[i].contentType = "multipart"
    /\ requests[i].hasFiles
    /\ requests[i].pc = "processing"

\* the gate has run for r and the Registry holds no schema for its model
gatedWithoutSchema(r) ==
  r.route = "invoke" /\ ran(r, "multer") /\ ~hasSchema(schemaMap, r.modelId)

\* C19 as stated: the gate passes a request for a model with no schema on
\* without parsing or answering, and the 404 for it is produced later, by
\* the controller.
GateFailsOpenThenController404 ==
  \A i \in 1..Len(requests) :
    LET r == requests[i]
    IN gatedWithoutSchema(r) =>
         /\ r.raisedBy # "multer"
         /\ ~r.hasFiles
         /\ (r.pc = "done") =>
              /\ ran(r, "controller")
              /\ r.raisedBy = "controller"
              /\ r.response.status = 404

\* C19 as the code has it: the gate passes a request for a model with no
\* schema on to validation without parsing a body, answering or forwarding
\* an error; the NotFound error (status code 404) for it is raised next, by
\* the validation middleware, and the controller never runs.
GateFailsOpenThenValidationNotFound ==
  \A i \in 1..Len(requests) :
    LET r == requests[i]
    IN gatedWithoutSchema(r) =>
         /\ r.raisedBy # "multer"
         /\ ~r.hasFiles
         /\ r.body = IF r.contentType = "json" THEN r.fields ELSE Obj(<<>>)
         /\ r.pc \in {"validation", "errorBoundary", "done"}
         /\ ~ran(r, "controller")
         /\ ran(r, "validation") =>
              /\ r.raisedBy = "validation"
              /\ r.err = notFound(m_noSchema \o r.modelId)
              /\ r.err.statusCode = 404
              /\ r.response.kind # "validation"

\* a multipart request for a model with no schema has got past the gate and
\* the validation middleware has raised NotFound for it
GateFailsOpenWitness ==
  \E i \in 1..Len(requests) :
    /\ gatedWithoutSchema(requests[i])
    /\ requests[i].contentType = "multipart"
    /\ requests[i].uploads # <<>>
    /\ requests[i].raisedBy = "validation"
    /\ requests[i].pc = "done"

\* C20: an invocation of a model the Factory holds and the Registry does not
\* is answered 404 on account of the NotFound error of the validation
\* middleware; its body is not validated, no strategy instance is created
\* and process() is not called.
FactoryOnlyModelAnswers404 ==
  \A i \in 1..Len(requests) :
    LET r == requests[i]
    IN (/\ r.route = "invoke"
        /\ validateApiKey(r.apiKey).isValid
        /\ isRegistered(strategyRegistry, r.modelId)
        /\ ~hasSchema(schemaMap, r.modelId)
        /\ r.pc = "done")
       => /\ r.raisedBy = "validation"
          /\ r.response.kind # "validation"
          /\ r.strategy = 0
          /\ r.settled = "no"
          /\ r.response.status = 404

\* the strategy instances created for invocations of modelId
instancesOf(modelId) == { k \in 1..Len(instances.heap) : instances.heap[k].modelId = modelId }

\* C21: the invocation controller is a linear state machine. The points a
\* request has reached in it are, in order, a prefix of Received, Resolved,
\* Invoked, Succeeded or of Received, Resolved, Invoked, Failed, or (model
\* ID not registered in the Factory) Received, Failed with no strategy
\* created; a step never shortens or rewrites that history, the strategy a
\* request holds is set once, by the step that reaches Resolved, and that
\* step creates exactly one instance; Invoked is reached at most once.
ControllerIsLinear ==
  /\ [](\A i \in 1..Len(requests) :
          LET r == requests[i]
          IN /\ \/ isPrefix(r.controller, <<"Received", "Resolved", "Invoked", "Succeeded">>)
                \/ isPrefix(r.controller, <<"Received", "Resolved", "Invoked", "Failed">>)
                \/ r.controller = <<"Received", "Failed">>
             /\ (r.strategy # 0) <=> ran(r, "controller") /\ Len(r.controller) >= 3
             /\ (r.controller = <<"Received", "Failed">>) =>
                  (r.strategy = 0 /\ ~isRegistered(strategyRegistry, r.modelId))
             /\ (r.pc = "processing") <=> (r.controller = <<"Received", "Resolved", "Invoked">>))
  /\ [][\A i \in 1..Len(requests) :
          /\ isPrefix(requests[i].controller, requests'[i].controller)
          /\ (requests[i].strategy # 0) => (requests'[i].strategy = requests[i].strategy)
          /\ (requests'[i].strategy # requests[i].strategy) =>
               /\ Len(instances'.heap) = Len(instances.heap) + 1
               /\ requests'[i].strategy = Len(instances'.heap)
          /\ (\A j \in 1..Len(requests) : requests'[j].strategy = requests[j].strategy)
               => (instances' = instances)]_vars

\* one request's strategy has rejected after it was resolved and invoked
ControllerIsLinearWitness ==
  \E i \in 1..Len(requests) :
    requests[i].controller = <<"Received", "Resolved", "Invoked", "Failed">>

(***************************************************************************)
(* Properties of invocations in flight together (SpecConcurrent)           *)
(***************************************************************************)
\* the answer to an invocation handled with no other request around: the
\* middleware of the route applied one after the other to the request as the
\* client sent it, with the strategy settling as given
aloneAnswer(r) ==
  LET auth == authenticate(r.apiKey)
      parsed == /\ createDynamicMulterMiddleware(schemaMap, r.modelId) = "upload.any"
                /\ r.contentType = "multipart"
      parseError == multerParse(r.uploads, 1)
      body == IF r.contentType = "json" \/ parsed THEN r.fields ELSE Obj(<<>>)
      found == getSchema(schemaMap, r.modelId)
      validation == validateRequestBody(body, found.schema, ajvOptions)
      input == IF parsed THEN Obj(mapSet(body.o, s_files, [t |-> "files", list |-> r.uploads]))
               ELSE body
      output == [result |-> input, model |-> mapGet(strategyRegistry, r.modelId).class,
                 user |-> auth.user.apiKeyId]
      unavailable == notFound(ConcatAll(<<m_ModelQ, r.modelId, m_notAvailable>>))
  IN IF auth.threw # noError THEN globalErrorHandler(auth.threw, nodeEnv)
     ELSE IF parsed /\ parseError # noError THEN globalErrorHandler(parseError, nodeEnv)
     ELSE IF found.threw # noError
     THEN globalErrorHandler(notFound(m_noSchema \o r.modelId), nodeEnv)
     ELSE IF ~validation.isValid
     THEN [sent |-> TRUE, status |-> 400, kind |-> "validation",
           body |-> validationFailureBody(r.path, validation.errors)]
     ELSE IF ~isRegistered(strategyRegistry, r.modelId)
     THEN globalErrorHandler(unavailable, nodeEnv)
     ELSE IF r.settled = "rejected" THEN globalErrorHandler(strategyError, nodeEnv)
     ELSE [sent |-> TRUE, status |-> 200, kind |-> "success",
           body |-> invokeSuccessBody(r.modelId, output)]

\* what each in-flight invocation holds is its own
IndependentState ==
  \A i \in 1..Len(requests) :
    LET r == requests[i]
    IN /\ (r.strategy # 0) =>
            /\ instances.heap[r.strategy].modelId = r.modelId
            /\ \A j \in 1..Len(requests) : (j # i) => (requests[j].strategy # r.strategy)
            /\ r.requestData = buildRequestData(r)
            /\ r.context = [apiKey |-> r.user.apiKeyId, userId |-> r.user.apiKeyId]
       /\ r.response.sent =>
            /\ r.response.status = aloneAnswer(r).status
            /\ r.response.kind = aloneAnswer(r).kind
            /\ r.response.body = aloneAnswer(r).body

\* a step of one request leaves every other request, and every strategy
\* instance already created, as they were
IndependentStep ==
  /\ \A i, j \in 1..Len(requests) :
       (i # j /\ requests'[i] # requests[i]) => (requests'[j] = requests[j])
  /\ \A k \in 1..Len(instances.heap) : instances'.heap[k] = instances.heap[k]

\* C15: invocations in flight together are independent. Each one that has
\* reached the controller holds a strategy instance no other request holds,
\* an input built from its own body and a ProcessContext built from its own
\* authenticated key; each answer is the one the request would get with no
\* other request around; and no step of one request changes another
\* request or an instance created earlier.
ConcurrentInvocationsIndependent == []IndependentState /\ [][IndependentStep]_vars

\* two invocations of the same model are awaiting process() at once
ConcurrentInvocationsWitness ==
  \E i, j \in 1..Len(requests) :
    /\ i # j
    /\ requests[i].pc = "processing"
    /\ requests[j].pc = "processing"
    /\ requests[i].modelId = requests[j].modelId
    /\ requests[i].strategy # requests[j].strategy

\* the next step of the middleware chain for request j
stepOf(j) ==
  \/ ApiKeyAuth(j)
  \/ DynamicMulter(j)
  \/ DynamicValidation(j)
  \/ ModelController(j)
  \/ ProcessResolves(j)
  \/ ProcessRejects(j)
  \/ GlobalErrorHandler(j)

AnsweredWithoutAssumption ==
  []<>(\A i \in 1..Len(requests) :
         (Len(requests[i].controller) >= 3) => requests[i].response.sent)

\* two plugin directories hold well-formed modules that export the same modelId
sameIdCandidates(d1, d2) ==
  /\ d1 # d2
  /\ ~malformed(plugins.dirs[d1])
  /\ ~malformed(plugins.dirs[d2])
  /\ plugins.dirs[d1].module.modelId = plugins.dirs[d2].module.modelId

\* the Factory and the Registry hold, for the plugin's modelId, what the
\* module of plugin directory d exports
holdsEntriesOf(factory, registry, d) ==
  LET m == plugins.dirs[d].module
  IN /\ mapHas(factory, m.modelId.s)
     /\ mapGet(factory, m.modelId.s) = [class |-> m.ModelStrategy.c]
     /\ mapHas(registry, m.modelId.s)
     /\ mapGet(registry, m.modelId.s) = m.configSchema.x

\* C24: of two candidates with the same modelId that loadPlugins loads
\* together (no other caller of the maps), at most one is ever loaded; once
\* both have settled exactly one is loaded and the other has failed with the
\* duplicate-registration error, logged once as that plugin's failure; the
\* maps hold the creator and the schema of the one that registered first,
\* and no later step of the loader removes or replaces them.
DuplicateIdFirstWins ==
  /\ [](\A d1, d2 \in PluginDirs :
          (sameIdCandidates(d1, d2) /\ directCalls = <<>>) =>
            /\ ~(pluginPc[d1] = "loaded" /\ pluginPc[d2] = "loaded")
            /\ (pluginPc[d1] = "loaded") => holdsEntriesOf(strategyRegistry, schemaMap, d1)
            /\ ({pluginPc[d1], pluginPc[d2]} \subseteq {"loaded", "failed"}) =>
                 /\ pluginPc[d1] # pluginPc[d2]
                 /\ (pluginPc[d2] = "failed") =>
                      /\ Cardinality(failuresOf(d2)) = 1
                      /\ \A i \in failuresOf(d2) : duplicateError(failures[i].error)
                      /\ loaderPc # "threw")
  /\ [][\A d \in PluginDirs :
          (pluginPc[d] = "loaded" /\ directCalls' = <<>>) =>
            /\ pluginPc'[d] = "loaded"
            /\ holdsEntriesOf(strategyRegistry', schemaMap', d)]_vars

\* loading is over: the candidate of the second directory registered first
\* and the candidate of the first directory failed as a duplicate
DuplicateIdFirstWinsWitness ==
  /\ loaderPc = "done"
  /\ directCalls = <<>>
  /\ sameIdCandidates("p1", "p2")
  /\ pluginPc["p2"] = "loaded"
  /\ pluginPc["p1"] = "failed"
  /\ \A i \in failuresOf("p1") : duplicateError(failures[i].error)
  /\ holdsEntriesOf(strategyRegistry, schemaMap, "p2")

\* the uploaded parts break a limit of the upload configuration or hold a
\* file of a type that is not allowed
offendingUpload(uploads) ==
  \/ Len(uploads) > filesLimit
  \/ \E k \in 1..Len(uploads) :
       \/ uploads[k].mimetype \notin {allowedTypes[t] : t \in 1..Len(allowedTypes)}
       \/ uploads[k].size > fileSizeLimit

\* the multipart gate is active for the request: its model's schema has file
\* requirements and the body is multipart
gateActive(r) ==
  /\ r.route = "invoke"
  /\ r.contentType = "multipart"
  /\ hasSchema(schemaMap, r.modelId)
  /\ checkSchemaForFileRequirements(getSchema(schemaMap, r.modelId).schema)

\* C25: when the gate is active, an upload with a file of a type that is
\* not allowed, with more than 5 files or with a file larger than 10 MB is
\* refused by the upload parser: once the parser has run the request carries
\* an error raised by the parser, exactly one error was passed on, and the
\* request is never seen by the validation middleware or by the controller,
\* so no strategy is created or invoked for it and no file reaches req.files.
OffendingUploadStopsAtParser ==
  \A i \in 1..Len(requests) :
    LET r == requests[i]
    IN (gateActive(r) /\ offendingUpload(r.uploads)) =>
         /\ ~ran(r, "validation")
         /\ ~ran(r, "controller")
         /\ r.strategy = 0
         /\ r.controller = <<>>
         /\ r.settled = "no"
         /\ ~r.hasFiles
         /\ ran(r, "multer") =>
              /\ r.err # noError
              /\ r.raisedBy = "multer"
              /\ r.forwarded = 1
              /\ r.pc \in {"errorBoundary", "done"}
              /\ r.response.sent => r.response.kind = "error"

\* an upload of six allowed files to the OCR model was refused for their
\* number and answered with an error
OffendingUploadStopsAtParserWitness ==
  \E i \in 1..Len(requests) :
    /\ gateActive(requests[i])
    /\ Len(requests[i].uploads) > filesLimit
    /\ \A k \in 1..Len(requests[i].uploads) : ~offendingUpload(<<requests[i].uploads[k]>>)
    /\ requests[i].raisedBy = "multer"
    /\ requests[i].err.code = "LIMIT_FILE_COUNT"
    /\ requests[i].response.sent

\* req.body as the body parsers leave it: express.json() for a JSON body,
\* the text fields read by upload.any() for a multipart body that was parsed
parsedBody(r) ==
  IF r.contentType = "json" \/ r.hasFiles THEN r.fields ELSE Obj(<<>>)

timesRan(r, stage) == Cardinality({k \in 1..Len(r.stages) : r.stages[k] = stage})

\* C26: when the body satisfies the schema, the validation middleware sends
\* no answer and raises no error, hands the request to the controller once,
\* and leaves req.body as it found it: no property is added (no default is
\* filled in), removed or changed. The requestData the controller builds is
\* therefore the parsed body of the client, plus the files entry when files
\* were uploaded.
ValidBodyPassesUntouched ==
  /\ [](\A i \in 1..Len(requests) :
          LET r == requests[i]
          IN (r.route = "invoke" /\ ran(r, "validation")
                /\ r.pc \in {"controller", "processing"}) =>
               /\ validateRequestBody(parsedBody(r), getSchema(schemaMap, r.modelId).schema,
                                      ajvOptions).isValid
               /\ r.body = parsedBody(r)
               /\ ~r.response.sent
               /\ r.sends = 0
               /\ r.forwarded = 0
               /\ timesRan(r, "validation") = 1
               /\ timesRan(r, "controller") <= 1
               /\ (r.pc = "processing") =>
                    /\ ~r.hasFiles => r.requestData = parsedBody(r)
                    /\ r.hasFiles =>
                         r.requestData.o
                           = mapSet(parsedBody(r).o, s_files, [t |-> "files", list |-> r.files]))
  /\ [][\A i \in 1..Len(requests) :
          (requests[i].pc = "validation" /\ requests'[i].pc # "validation") =>
            /\ requests'[i].body = requests[i].body
            /\ (requests'[i].pc = "controller") =>
                 /\ requests'[i].response = requests[i].response
                 /\ requests'[i].err = requests[i].err
                 /\ requests'[i].stages = Append(requests[i].stages, "validation")]_vars

\* a body for the OCR model that leaves out language, for which the schema
\* has a default, was validated and reached the strategy without it
ValidBodyPassesUntouchedWitness ==
  \E i \in 1..Len(requests) :
    /\ requests[i].modelId = id_ocr
    /\ requests[i].pc = "processing"
    /\ ran(requests[i], "validation")
    /\ ~hasKey(requests[i].fields, s_language)
    /\ ~hasKey(requests[i].requestData, s_language)
    /\ \E k \in 1..Len(getSchema(schemaMap, id_ocr).schema.properties) :
         LET p == getSchema(schemaMap, id_ocr).schema.properties[k]
         IN p.k = s_language /\ "default" \in DOMAIN p.v

\* C27: serving a request never changes the Factory or the Registry: no
\* step of any middleware or controller, whatever the request and its
\* outcome, adds, removes or replaces an entry of either map, and no step
\* touches the loader's record; an answered request leaves both maps as the
\* start-up left them.
ServingLeavesMapsAlone ==
  /\ [][ /\ strategyRegistry' = strategyRegistry
         /\ schemaMap' = schemaMap
         /\ <<pluginPc, loaderPc, failures, directCalls>>'
              = <<pluginPc, loaderPc, failures, directCalls>> ]_vars
  /\ [](\E dep \in Deployments :
           strategyRegistry = dep.factory /\ schemaMap = dep.registry)

\* an invocation was validated and answered by its strategy, and the maps
\* are those of the two loaded plugins
ServingLeavesMapsAloneWitness ==
  /\ strategyRegistry = loadedPair.factory
  /\ schemaMap = loadedPair.registry
  /\ \E i \in 1..Len(requests) :
       /\ ran(requests[i], "validation")
       /\ requests[i].strategy # 0
       /\ requests[i].settled = "resolved"
       /\ requests[i].response.sent

\* C28: starting from an empty Factory and an empty Registry, with
\* loadPlugins the only caller, the two maps hold the same model IDs in every
\* state, between any two steps of the loader as well as at its end, and for
\* every ID the creator and the schema are those exported by one plugin, a
\* plugin that loaded without failure; when loading is over every candidate
\* has settled.
LoaderRegistersPairs ==
  (directCalls = <<>>) =>
    /\ keySet(strategyRegistry) = keySet(schemaMap)
    /\ Len(strategyRegistry) = Len(schemaMap)
    /\ \A id \in keySet(strategyRegistry) \cup keySet(schemaMap) :
         \E d \in PluginDirs :
           /\ pluginPc[d] = "loaded"
           /\ ~malformed(plugins.dirs[d])
           /\ plugins.dirs[d].module.modelId.s = id
           /\ holdsEntriesOf(strategyRegistry, schemaMap, d)
    /\ (loaderPc = "done" /\ plugins.access = "ok") =>
         \A d \in PluginDirs : pluginPc[d] \in {"loaded", "failed"}
    /\ (loaderPc \in {"idle", "threw"}) => (strategyRegistry = <<>> /\ schemaMap = <<>>)

\* loading is over with two plugins registered and one candidate failed
LoaderRegistersPairsWitness ==
  /\ directCalls = <<>>
  /\ loaderPc = "done"
  /\ keySet(strategyRegistry) = {id_echo, id_ocr}
  /\ keySet(schemaMap) = {id_echo, id_ocr}
  /\ \E d \in PluginDirs : pluginPc[d] = "failed"

\* C29: an invocation is answered at most once. A step of a stage does one
\* of three things and never two of them: it sends the one answer, which
\* ends the request; it hands one error to next, which leads to the error
\* handler; or it passes control on without answering. No stage runs twice
\* for a request, and nothing further happens to a request that was answered.
AnsweredAtMostOnce ==
  /\ [](\A i \in 1..Len(requests) :
          LET r == requests[i]
          IN (r.route = "invoke") =>
               /\ r.sends <= 1
               /\ r.forwarded <= 1
               /\ r.response.sent <=> (r.sends = 1)
               /\ (r.pc = "done") <=> (r.sends = 1)
               /\ (r.pc = "errorBoundary") => (r.forwarded = 1 /\ r.sends = 0)
               /\ ran(r, "errorHandler") <=> (r.forwarded = 1 /\ r.sends = 1)
               /\ \A k \in 1..Len(r.stages) : timesRan(r, r.stages[k]) = 1)
  /\ [][\A i \in 1..Len(requests) :
          LET r == requests[i]
              q == requests'[i]
          IN (r.route = "invoke" /\ q # r) =>
               /\ r.pc # "done"
               /\ Len(q.stages) <= Len(r.stages) + 1
               /\ \/ /\ q.sends = r.sends + 1
                     /\ q.forwarded = r.forwarded
                     /\ q.pc = "done"
                  \/ /\ q.sends = r.sends
                     /\ q.forwarded = r.forwarded + 1
                     /\ q.pc = "errorBoundary"
                     /\ q.response = r.response
                  \/ /\ q.sends = r.sends
                     /\ q.forwarded = r.forwarded
                     /\ q.pc \notin {"done", "errorBoundary", r.pc}
                     /\ q.response = r.response]_vars

\* an invocation without a valid key: the first stage handed one error on
\* and the error handler sent the only answer
AnsweredAtMostOnceWitness ==
  \E i \in 1..Len(requests) :
    /\ requests[i].route = "invoke"
    /\ requests[i].raisedBy = "apiKeyAuth"
    /\ requests[i].stages = <<"apiKeyAuth", "errorHandler">>
    /\ requests[i].forwarded = 1
    /\ requests[i].sends = 1

\* C30: the server takes requests only after plugin loading has finished.
\* It listens only when loadPlugins has returned with every candidate
\* settled; a request exists only on a listening server, so none is handled
\* while loadPlugins runs, and the maps the requests are served from no
\* longer change. When loadPlugins throws, the server never listens, no
\* request is ever taken, and the process exits with code 1 and stays so.
ListenAfterLoading ==
  /\ []( /\ (serverPc = "listening") =>
              /\ loaderPc = "done"
              /\ (plugins.access = "ok") =>
                   \A d \in PluginDirs : pluginPc[d] \in {"loaded", "failed"}
         /\ (requests # <<>>) => (serverPc = "listening" /\ loaderPc = "done")
         /\ (loaderPc \in {"idle", "loading", "threw"}) =>
              (requests = <<>> /\ serverPc # "listening")
         /\ (serverPc = "exit1") => (loaderPc = "threw" /\ requests = <<>>) )
  /\ [][ /\ (serverPc = "listening") =>
              /\ serverPc' = "listening"
              /\ <<strategyRegistry, schemaMap, pluginPc, loaderPc, failures>>'
                   = <<strategyRegistry, schemaMap, pluginPc, loaderPc, failures>>
         /\ (serverPc = "exit1") => UNCHANGED vars
         /\ (requests' # requests) => (serverPc = "listening") ]_vars
  /\ (loaderPc = "threw") ~> (serverPc = "exit1")

\* loading ended with one candidate failed and two registered, the server
\* listens and has answered a request
ListenAfterLoadingWitness ==
  /\ serverPc = "listening"
  /\ \E d \in PluginDirs : pluginPc[d] = "failed"
  /\ keySet(strategyRegistry) = {id_echo, id_ocr}
  /\ \E i \in 1..Len(requests) : requests[i].response.sent /\ requests[i].response.status = 200

====
